---- MODULE Spec2Model ----
(***************************************************************************)
(* The turn-state machine of swarm: Swarm.run and Swarm.run_and_stream     *)
(* (swarm/_sync/core.py) and their AsyncSwarm twins (swarm/_async/core.py),*)
(* with the tool dispatcher (handle_tool_calls), the return normalisation  *)
(* (handle_function_result), the chunk merger (swarm/util.py) and the      *)
(* retry loop (_get_streaming_completion_with_retry).                      *)
(*                                                                         *)
(* One run is modelled.  The transport and the caller's tools are the      *)
(* environment: the transport answers each turn with one of a small set of *)
(* scripted completions (streamed as fragments in streaming mode) or fails;*)
(* the tools are a fixed registry of functions.                            *)
(***************************************************************************)
EXTENDS Integers, Sequences, FiniteSets, TLC

VARIABLES
    self,               \* the orchestrator: class, exponential_backoff, retry_callback
    args,               \* the arguments of run(): agent, messages, context_variables,
                        \*   stream, max_turns, execute_tools
    pc,                 \* position of the run
    active_agent,       \* local active_agent (an agent name)
    context_variables,  \* local context_variables (the run's deep copy)
    history,            \* local history (the run's deep copy, then appended to)
    message,            \* the assistant message of the turn (streaming: the buffer)
    script,             \* the completion the transport is producing for this turn
    pos,                \* streaming: fragments of the current attempt consumed so far
    yielded_start,      \* streaming: local yielded_start of the current attempt
    tries,              \* streaming: local tries of the retry loop
    tool_calls,         \* handle_tool_calls: the batch being dispatched
    idx,                \* handle_tool_calls: index of the next call of the batch
    partial_response,   \* handle_tool_calls: the partial Response being built
    request,            \* the create_params of the last request sent to the transport
    env,                \* environment: the transport failures it may inject (budget),
                        \*   those injected so far, the longest batch it requests
                        \*   (calls), the ways it cuts tool calls into fragments (styles),
                        \*   the tools its model asks for and the argument strings it
                        \*   sends (tools, arguments)
    retry_log,          \* the RetryState of every retry_callback invocation, in order
    slept,              \* every time.sleep() duration, in order
    injected,           \* the context_variables argument of every tool invocation of
                        \*   the current batch, by position in the batch
    invoked,            \* tool names invoked in the current batch, in order
    events,             \* what run_and_stream has yielded, in order
    attempts,           \* requests issued to the transport for the current turn
    response,           \* the Response returned (or yielded last), once there is one
    error,              \* the exception that reached the caller, once there is one
    other,              \* the locals of the other run of the same orchestrator, which
                        \*   is suspended while this one runs (NoRun: there is none)
    util                \* a call of util.function_to_json and json_to_function_args
                        \*   outside a run: the function, the JSON arguments, what
                        \*   has returned (NoUtil: there is none)

vars == << self, args, pc, active_agent, context_variables, history, message,
           script, pos, yielded_start, tries, tool_calls, idx, partial_response,
           request, env, retry_log, slept, injected, invoked, events, attempts,
           response, error, other, util >>

----------------------------------------------------------------------------
(* Bounds of the model *)

\* max_turns ranges over 0..MaxTurnsArg
MaxTurnsArg == 4
\* a scripted completion requests at most MaxCalls tool calls
MaxCalls == 2
\* under SpecRetry: the transport failures injected in one run, and the tool calls
\* a scripted completion requests at most
MaxRetryFaults == 5
MaxRetryCalls == 1
\* under SpecMerge: the tool calls a scripted completion requests at most
MaxMergeCalls == 2
\* under SpecTools: the tool calls a scripted completion requests at most
MaxToolsCalls == 2
\* under SpecPair: the tool calls a scripted completion requests at most
MaxPairCalls == 1
\* under SpecLive: max_turns ranges over 0..MaxLiveTurns
MaxLiveTurns == 4
\* under SpecOrder: the tool calls a scripted completion requests at most
MaxOrderCalls == 2
\* under SpecUtil: the parameters a function declares at most
MaxParams == 2
\* under SpecUtil: the characters of a string handed to merge_fields at most
MaxStr == 1
\* under SpecEmpty: max_turns ranges over 0..MaxEmptyTurns
MaxEmptyTurns == 3
\* under SpecEmpty: the tool calls a scripted completion requests at most
MaxEmptyCalls == 1
\* under SpecTwin: max_turns ranges over 0..MaxTwinTurns
MaxTwinTurns == 3
\* under SpecTwin: the tool calls a scripted completion requests at most
MaxTwinCalls == 1

----------------------------------------------------------------------------
(* Values *)

\* Python None, for fields that otherwise hold a string
None == "None"

\* an Optional list: NoneList is None, Some(l) is the list l
NoneList == << >>
Some(l) == << l >>
IsNoneList(o) == o = NoneList
\* Python truthiness of an Optional list: None and [] are falsy
Truthy(o) == o # NoneList /\ o[1] # << >>
ListOf(o) == IF o = NoneList THEN << >> ELSE o[1]

\* dicts are functions from keys to values
EmptyDict == [k \in {} |-> ""]
\* dict.update: the keys of b are added to a or overwrite a's
DictUpdate(a, b) ==
    [k \in DOMAIN a \cup DOMAIN b |-> IF k \in DOMAIN b THEN b[k] ELSE a[k]]
\* defaultdict(str, d)[k]
DefaultGet(d, k) == IF k \in DOMAIN d THEN d[k] ELSE ""

Range(s) == { s[i] : i \in DOMAIN s }

\* the sequences over S of length at most n
RECURSIVE SeqsUpTo(_, _)
SeqsUpTo(S, n) ==
    IF n = 0 THEN { << >> }
    ELSE LET shorter == SeqsUpTo(S, n - 1)
         IN  shorter \cup { Append(s, x) : s \in { t \in shorter : Len(t) = n - 1 }, x \in S }

----------------------------------------------------------------------------
(* core.py constants *)

CTX_VARS_NAME == "context_variables"
RETRY_TIMES == << 0, 5, 10, 30, 60 >>

----------------------------------------------------------------------------
(* The caller's agents and tools (environment) *)

AgentNames == { "A", "B" }

\* Agent.functions, by agent: the __name__ of each function, in order
AgentFunctions(agent) ==
    IF agent = "A" THEN << "set_x", "to_B", "to_A", "seven", "boom", "opaque" >>
    ELSE << "echo", "to_A" >>

\* Agent.instructions: A's is a string, B's is a callable of the context variables
\* (it is handed defaultdict(str, context_variables))
AgentInstructions(agent, ctx) ==
    IF agent = "A" THEN "You are A."
    ELSE "You are B. x=" \o DefaultGet(ctx, "x")

\* the tools that return a Result, an Agent or a string, and all the tools
BasicTools == { "set_x", "to_B", "to_A", "echo" }
ToolNames == BasicTools \cup { "seven", "boom", "opaque" }

\* func.__code__.co_varnames holds context_variables
DeclaresCtx(name) == name = "echo"

\* what each tool returns.  kwargs is the keyword-argument dict of the invocation.
\*   set_x()  returns Result(value="done", context_variables={"x": "1"})
\*   to_B()   returns the Agent B
\*   to_A()   returns Result(value="back", agent=A, context_variables={"x": "2", "y": "2"})
\*   echo(context_variables)  returns the plain string "x=" + context_variables.get("x", "")
\*   seven()  returns the int 7
\*   boom()   raises RuntimeError
\*   opaque() returns an object whose __str__ raises
ToolReturn(name, kwargs) ==
    CASE name = "set_x" ->
            [ kind |-> "Result", value |-> "done", agent |-> None,
              context_variables |-> ("x" :> "1") ]
      [] name = "to_B" ->
            [ kind |-> "Agent", value |-> None, agent |-> "B",
              context_variables |-> EmptyDict ]
      [] name = "to_A" ->
            [ kind |-> "Result", value |-> "back", agent |-> "A",
              context_variables |-> ("x" :> "2" @@ "y" :> "2") ]
      [] name = "seven" ->
            [ kind |-> "int", value |-> 7, agent |-> None,
              context_variables |-> EmptyDict ]
      [] name = "boom" ->
            [ kind |-> "raise", value |-> "RuntimeError", agent |-> None,
              context_variables |-> EmptyDict ]
      [] name = "opaque" ->
            [ kind |-> "opaque", value |-> "<opaque>", agent |-> None,
              context_variables |-> EmptyDict ]
      [] OTHER ->
            [ kind |-> "str",
              value |-> "x=" \o DefaultGet(kwargs[CTX_VARS_NAME], "x"),
              agent |-> None, context_variables |-> EmptyDict ]

----------------------------------------------------------------------------
(* The transport's scripted completions (environment) *)

\* the tool call at position i (1-based) of a batch: call is << name, arguments >>
ScriptCall(call, i) ==
    [ id |-> "call_" \o ToString(i), type |-> "function",
      function |-> [ name |-> call[1], arguments |-> call[2] ] ]

\* the argument strings of a model: "{}" parses, "{" does not
GoodArguments == { "{}" }
AnyArguments == { "{}", "{" }

\* a completion of a transport e: a final answer "ab", or a batch of at most
\* e.calls tool calls and no content, each call naming a tool of e.tools with an
\* argument string of e.arguments; a transport with e.empty also produces the
\* completion with neither content nor tool calls, which it streams as no
\* fragment at all
Scripts(e) ==
    { [ content |-> "ab", tool_calls |-> NoneList ] }
    \cup (IF e.empty THEN { [ content |-> None, tool_calls |-> NoneList ] } ELSE { })
    \cup { [ content |-> None,
             tool_calls |-> Some([ i \in 1..Len(calls) |-> ScriptCall(calls[i], i) ]) ]
           : calls \in SeqsUpTo(e.tools \X e.arguments, e.calls) \ { << >> } }

\* how a transport cuts the tool calls of a completion into fragments:
\*   "whole"   one fragment per tool call, carrying the whole call
\*   "pieces"  two fragments per tool call: the first carries id, type, name and
\*             empty arguments, the second only the arguments (id, type and name
\*             are None in its model_dump())
\*   "packed"  one fragment whose tool_calls list carries every call of the batch
AllStyles == { "whole", "pieces", "packed" }

\*   "reversed"  one fragment per tool call, carrying the whole call, the call of
\*               the highest index first
OrderStyles == { "whole", "reversed" }

\* the styles that make a difference for a completion
StylesFor(sc, styles) ==
    IF ~Truthy(sc.tool_calls) THEN { "whole" }
    ELSE { st \in styles :
             st \in { "packed", "reversed" } => Len(ListOf(sc.tool_calls)) >= 2 }

\* the completions a streaming transport may produce, each with its style
StreamScripts(e) ==
    UNION { { [ content |-> sc.content, tool_calls |-> sc.tool_calls, style |-> st ]
              : st \in StylesFor(sc, e.styles) }
            : sc \in Scripts(e) }

\* the delta of the whole tool call at position i of a batch
WholeDelta(calls, i) ==
    [ index |-> i - 1, id |-> calls[i].id, type |-> calls[i].type,
      function |-> calls[i].function ]

\* the two deltas tool call i is cut into
HeadDelta(calls, i) ==
    [ index |-> i - 1, id |-> calls[i].id, type |-> calls[i].type,
      function |-> [ name |-> calls[i].function.name, arguments |-> "" ] ]
TailDelta(calls, i) ==
    [ index |-> i - 1, id |-> None, type |-> None,
      function |-> [ name |-> None, arguments |-> calls[i].function.arguments ] ]

\* the tool_calls lists of the fragments that carry the batch calls
ToolCallDeltas(calls, style) ==
    CASE style = "pieces" ->
            [ j \in 1..(2 * Len(calls)) |->
                IF j % 2 = 1 THEN << HeadDelta(calls, (j + 1) \div 2) >>
                ELSE << TailDelta(calls, j \div 2) >> ]
      [] style = "packed" ->
            << [ i \in 1..Len(calls) |-> WholeDelta(calls, i) ] >>
      [] style = "reversed" ->
            [ i \in 1..Len(calls) |-> << WholeDelta(calls, Len(calls) + 1 - i) >> ]
      [] OTHER ->
            [ i \in 1..Len(calls) |-> << WholeDelta(calls, i) >> ]

\* the fragments (choices[0].delta.model_dump()) a completion is streamed as: the
\* content one character at a time, then the tool calls in the style of the
\* transport; the first fragment carries the role
Fragments(sc) ==
    LET pieces ==
            IF sc.content = None THEN << >>
            ELSE [ i \in 1..Len(sc.content) |->
                     [ content |-> SubSeq(sc.content, i, i), tool_calls |-> << >> ] ]
        calls == ListOf(sc.tool_calls)
        lists == IF calls = << >> THEN << >> ELSE ToolCallDeltas(calls, sc.style)
        deltas ==
            [ i \in 1..Len(lists) |-> [ content |-> None, tool_calls |-> lists[i] ] ]
        all == pieces \o deltas
    IN  [ i \in 1..Len(all) |->
            [ role |-> IF i = 1 THEN "assistant" ELSE None,
              content |-> all[i].content,
              function_call |-> None,
              tool_calls |-> all[i].tool_calls ] ]

----------------------------------------------------------------------------
(* swarm/util.py: the chunk merger *)

\* merge_fields, the branch of a string-typed field: a string is concatenated
\* onto the target, None is skipped
merge_fields_str(target, value) ==
    IF value = None THEN target ELSE target \o value

\* merge_fields on the nested "function" dict of a tool-call delta
merge_fields_function(target, source) ==
    [ name |-> merge_fields_str(target.name, source.name),
      arguments |-> merge_fields_str(target.arguments, source.arguments) ]

\* the in-progress tool calls of the buffer are a defaultdict keyed by index; it is
\* modelled as Some of the sequence of its entries in insertion order, each with
\* its key
NewToolCall(index) ==
    [ index |-> index, id |-> "", type |-> "",
      function |-> [ name |-> "", arguments |-> "" ] ]

HasIndex(calls, index) == \E i \in DOMAIN calls : calls[i].index = index

\* final_response["tool_calls"][index]: a missing key is inserted last
WithIndex(calls, index) ==
    IF HasIndex(calls, index) THEN calls ELSE Append(calls, NewToolCall(index))

\* merge_chunk, lines 27-32: only tool_calls[0] of the delta is merged; its type
\* overwrites the entry's, its id and function are merged by merge_fields
merge_tool_call(calls, d) ==
    [ i \in DOMAIN WithIndex(calls, d.index) |->
        LET e == WithIndex(calls, d.index)[i]
        IN  IF e.index # d.index THEN e
            ELSE [ index |-> e.index,
                   id |-> merge_fields_str(e.id, d.id),
                   type |-> d.type,
                   function |-> merge_fields_function(e.function, d.function) ] ]

\* merge_chunk(final_response, delta): role and sender were popped; content is
\* concatenated by merge_fields; function_call (None) and tool_calls (a list) are
\* skipped by merge_fields
merge_chunk(final_response, delta) ==
    [ final_response EXCEPT
        !.content = merge_fields_str(@, delta.content),
        !.tool_calls =
            IF delta.tool_calls # << >>
            THEN Some(merge_tool_call(ListOf(@), delta.tool_calls[1]))
            ELSE @ ]

\* a value of a delta or of the buffer, by its Python type: a str, a dict (its
\* items by key), None, or a value of another type (a number, a boolean), written
\* as its repr
StrOf(text) == [ kind |-> "str", v |-> text ]
DictOf(items) == [ kind |-> "dict", v |-> items ]
OtherOf(rep) == [ kind |-> "other", v |-> rep ]
NoneValue == [ kind |-> "None", v |-> "None" ]

\* a merge_fields that assigns the values that are neither str nor dict: C27 is
\* checked against it
RECURSIVE merge_fields_assigns(_, _)
merge_fields_assigns(target, source) ==
    [ key \in DOMAIN target |->
        IF key \notin DOMAIN source THEN target[key]
        ELSE CASE source[key].kind = "str" ->
                     StrOf(target[key].v \o source[key].v)
               [] source[key].kind = "dict" ->
                     DictOf(merge_fields_assigns(target[key].v, source[key].v))
               [] source[key].kind = "other" -> source[key]
               [] OTHER -> target[key] ]

\* merge_fields, lines 15-20, on a source whose keys are keys of the target: a str
\* is added to the target's, a dict is merged into the target's, any other value
\* and None are passed over
RECURSIVE merge_fields(_, _)
merge_fields(target, source) ==
    [ key \in DOMAIN target |->
        IF key \notin DOMAIN source THEN target[key]
        ELSE CASE source[key].kind = "str" ->
                     StrOf(target[key].v \o source[key].v)
               [] source[key].kind = "dict" ->
                     DictOf(merge_fields(target[key].v, source[key].v))
               [] OTHER -> target[key] ]

\* json.loads on a tool call's argument string: only "{}" parses among the strings
\* the model produces ("" and "{}{}" raise JSONDecodeError)
JsonValid(s) == s = "{}"
JsonLoads(s) == EmptyDict

\* a Python value of a signature or of parsed JSON: its kind and, in order, what
\* it holds
Plain(v) == [ kind |-> "plain", items |-> << v >> ]
ListValue(vs) == [ kind |-> "list", items |-> vs ]
ObjectValue(vs) == [ kind |-> "object", items |-> vs ]

\* inspect._empty: the default of a parameter that declares none
Empty == [ kind |-> "inspect._empty", items |-> << >> ]

\* the annotation of a parameter that declares none
NoAnnotation == "inspect._empty"

\* inspect.signature of a tool of the registry: its parameters in declaration
\* order, each with its name, annotation and default
Signature(name) ==
    IF DeclaresCtx(name)
    THEN << [ name |-> CTX_VARS_NAME, annotation |-> NoAnnotation,
              default |-> Empty ] >>
    ELSE << >>

\* the declared parameters of a tool function
DeclaredParams(name) == { Signature(name)[i].name : i \in DOMAIN Signature(name) }

\* function_to_json lines 86-115: the schema of a parameter by its annotation: a
\* BaseModel's own schema, an array of it or of a primitive type, the type_map
\* entry, "string" by default
ParamSchema(annotation) ==
    CASE annotation = "Model" -> "object"
      [] annotation = "list[Model]" -> "array of object"
      [] annotation = "list[int]" -> "array of integer"
      [] annotation = "int" -> "integer"
      [] OTHER -> "string"

\* a function_to_json that requires every parameter: C23 is checked against it
function_to_json_all_required(func) ==
    [ properties |-> [ i \in DOMAIN func |->
                         [ name |-> func[i].name,
                           schema |-> ParamSchema(func[i].annotation) ] ],
      required |-> [ i \in DOMAIN func |-> func[i].name ] ]

\* function_to_json lines 84-140, the "parameters" of the result: a property per
\* parameter of the signature (a dict, in insertion order), and in required the
\* names of the parameters whose default is inspect._empty
function_to_json(func) ==
    [ properties |-> [ i \in DOMAIN func |->
                         [ name |-> func[i].name,
                           schema |-> ParamSchema(func[i].annotation) ] ],
      required |->
          LET without == SelectSeq(func, LAMBDA param : param.default = Empty)
          IN  [ i \in DOMAIN without |-> without[i].name ] ]

\* lines 149-165: the argument built from a supplied value: a BaseModel (or a list
\* of them) is constructed from it, any other value is passed as it is
Converted(annotation, value) ==
    CASE annotation = "Model" -> [ value EXCEPT !.kind = "Model" ]
      [] annotation = "list[Model]" -> [ value EXCEPT !.kind = "list of Model" ]
      [] OTHER -> value

\* json_to_function_args: one entry per parameter of the signature, the
\* supplied value or param.default (inspect._empty when it declares none)
json_to_function_args(func, json_args) ==
    [ name \in { func[i].name : i \in DOMAIN func } |->
        LET param == func[CHOOSE i \in DOMAIN func : func[i].name = name]
        IN  IF name \in DOMAIN json_args
            THEN Converted(param.annotation, json_args[name])
            ELSE param.default ]

----------------------------------------------------------------------------
(* core.py: get_chat_completion, handle_function_result *)

InitLen == Len(args.messages)

\* a request that holds the history as it is: C31 is checked against it
Sanitize_keeps(hist) == hist

\* history with the sender and tool_name keys removed from every message
Sanitize(hist) ==
    [ i \in DOMAIN hist |->
        [ k \in DOMAIN hist[i] \ { "sender", "tool_name" } |-> hist[i][k] ] ]

\* function_to_json of each function, context_variables popped from its
\* properties and required
ToolSchemas(agent) ==
    [ i \in DOMAIN AgentFunctions(agent) |->
        [ name |-> AgentFunctions(agent)[i],
          properties |-> DeclaredParams(AgentFunctions(agent)[i]) \ { CTX_VARS_NAME } ] ]

\* create_params of get_chat_completion
CreateParams(agent, hist, ctx, strm) ==
    [ messages |-> << [ role |-> "system",
                        content |-> AgentInstructions(agent, ctx) ] >>
                   \o Sanitize(hist),
      tools |-> IF ToolSchemas(agent) = << >> THEN NoneList
                ELSE Some(ToolSchemas(agent)),
      stream |-> strm ]

\* str(result), line 115
Str(raw) == IF raw.kind = "int" THEN ToString(raw.value) ELSE raw.value

\* a normalisation that takes every return value for a string: C20 is checked
\* against it
Coercible_always(raw) == TRUE

\* lines 114-119: str(result) raises for an object whose __str__ raises, and
\* handle_function_result raises TypeError
Coercible(raw) == raw.kind # "opaque"

\* a normalisation that reports a returned Agent by its bare name: C19 is checked
\* against it
handle_function_result_bare_name(raw) ==
    CASE raw.kind = "Result" ->
            [ value |-> raw.value, agent |-> raw.agent,
              context_variables |-> raw.context_variables ]
      [] raw.kind = "Agent" ->
            [ value |-> raw.agent,
              agent |-> raw.agent, context_variables |-> EmptyDict ]
      [] OTHER ->
            [ value |-> Str(raw), agent |-> None,
              context_variables |-> EmptyDict ]

\* handle_function_result, the value it returns (lines 104-115)
handle_function_result(raw) ==
    CASE raw.kind = "Result" ->
            [ value |-> raw.value, agent |-> raw.agent,
              context_variables |-> raw.context_variables ]
      [] raw.kind = "Agent" ->
            [ value |-> "{\"assistant\": \"" \o raw.agent \o "\"}",
              agent |-> raw.agent, context_variables |-> EmptyDict ]
      [] OTHER ->
            [ value |-> Str(raw), agent |-> None,
              context_variables |-> EmptyDict ]

\* a run that returns its whole history: C16 is checked against it
MakeResponse_whole_history(hist, agent, ctx) ==
    [ messages |-> hist, agent |-> agent, context_variables |-> ctx ]

\* Response(messages=history[init_len:], agent=active_agent, context_variables=...)
MakeResponse(hist, agent, ctx) ==
    [ messages |-> SubSeq(hist, InitLen + 1, Len(hist)),
      agent |-> agent,
      context_variables |-> ctx ]

\* a run_and_stream that yields its Response ahead of what it yielded before: C17
\* is checked against it
YieldResponse_first(evs) ==
    IF args.stream THEN << [ kind |-> "response", value |-> "" ] >> \o evs ELSE evs

\* run_and_stream lines 303-309: the Response is yielded (run returns it)
YieldResponse(evs) ==
    IF args.stream THEN Append(evs, [ kind |-> "response", value |-> "" ]) ELSE evs

\* a loop that is entered once whatever max_turns is: C13 is checked against it
LoopCondition_one_more == Len(history) - InitLen <= args.max_turns

\* the loop condition of run (line 337) and run_and_stream (line 243)
LoopCondition == Len(history) - InitLen < args.max_turns

----------------------------------------------------------------------------
(* Placeholders of locals that are not bound yet *)

NoMessage == [ role |-> None ]
NoScript == [ content |-> None, tool_calls |-> NoneList ]
NoRequest == [ messages |-> << >>, tools |-> NoneList, stream |-> FALSE ]
NoResponse == [ messages |-> << >>, agent |-> None, context_variables |-> EmptyDict ]

\* no other run
NoRun == [ pc |-> "none" ]

\* no call of util outside the run
NoUtil == [ done |-> { } ]

\* Response(messages=[], agent=None, context_variables={}) of handle_tool_calls
EmptyPartial == [ messages |-> << >>, agent |-> None, context_variables |-> EmptyDict ]

\* the caller's input
InputMessages == << [ role |-> "user", content |-> "hi" ] >>
InputContext == ("k" :> "0")

----------------------------------------------------------------------------
(* Initial states: an orchestrator has been constructed and run() is being called *)

\* a transport that may fail budget times and whose model asks for at most calls
\* tool calls a turn, among the basic tools, with arguments that parse, one whole
\* tool call per fragment, and answers every turn with content or a tool call
Transport(budget, calls) ==
    [ budget |-> budget, injected |-> 0, calls |-> calls, styles |-> { "whole" },
      tools |-> BasicTools, arguments |-> GoodArguments, empty |-> FALSE ]

InitCall(selves, turns, e) ==
    /\ self \in selves
    /\ args \in [ agent : { "A" },
                  messages : { InputMessages },
                  context_variables : { InputContext },
                  stream : BOOLEAN,
                  max_turns : turns,
                  execute_tools : BOOLEAN ]
    /\ pc = "start"
    /\ active_agent = None
    /\ context_variables = EmptyDict
    /\ history = << >>
    /\ message = NoMessage
    /\ script = NoScript
    /\ pos = 0
    /\ yielded_start = FALSE
    /\ tries = 0
    /\ tool_calls = << >>
    /\ idx = 1
    /\ partial_response = EmptyPartial
    /\ request = NoRequest
    /\ env = e
    /\ retry_log = << >>
    /\ slept = << >>
    /\ injected = << >>
    /\ invoked = << >>
    /\ events = << >>
    /\ attempts = 0
    /\ response = NoResponse
    /\ error = None

\* one run on the orchestrator
InitWith(selves, turns, e) ==
    InitCall(selves, turns, e) /\ other = NoRun /\ util = NoUtil

\* Swarm() and AsyncSwarm() with the defaults of __init__ (lines 45-55), any
\* max_turns up to MaxTurnsArg, a transport that does not fail
DefaultSelves ==
    { [ class |-> "Swarm", exponential_backoff |-> FALSE, retry_callback |-> FALSE ],
      [ class |-> "AsyncSwarm", exponential_backoff |-> TRUE, retry_callback |-> FALSE ] }

Init == InitWith(DefaultSelves, 0..MaxTurnsArg, Transport(0, MaxCalls))

\* every orchestrator, max_turns = 1, a transport that fails up to MaxRetryFaults
\* times
AllSelves ==
    [ class : { "Swarm", "AsyncSwarm" },
      exponential_backoff : BOOLEAN,
      retry_callback : BOOLEAN ]

InitRetry == InitWith(AllSelves, { 1 }, Transport(MaxRetryFaults, MaxRetryCalls))

\* Swarm() and AsyncSwarm(), max_turns = 1, a transport that does not fail and
\* cuts its tool calls into fragments in any style
InitMerge ==
    InitWith(DefaultSelves, { 1 },
             [ Transport(0, MaxMergeCalls) EXCEPT !.styles = AllStyles ])

\* Swarm() and AsyncSwarm(), max_turns = 1, a transport that does not fail and
\* delivers the tool calls of a batch in the order of their indices or in the
\* opposite order
InitOrder ==
    InitWith(DefaultSelves, { 1 },
             [ Transport(0, MaxOrderCalls) EXCEPT !.styles = OrderStyles ])

\* Swarm() and AsyncSwarm(), max_turns 1 or 3, a transport that does not fail and
\* a model that asks for any tool of the registry, also with arguments that do not
\* parse
InitTools ==
    InitWith(DefaultSelves, { 1, 3 },
             [ Transport(0, MaxToolsCalls) EXCEPT !.tools = ToolNames,
                                                  !.arguments = AnyArguments ])

\* Swarm() and AsyncSwarm(), any max_turns up to MaxLiveTurns, a transport that
\* does not fail and a model that asks for one tool call a turn at most
InitLive == InitWith(DefaultSelves, 0..MaxLiveTurns, Transport(0, 1))

\* Swarm() and AsyncSwarm(), any max_turns up to MaxEmptyTurns, a transport that
\* does not fail and may answer a turn with an empty completion
InitEmpty ==
    InitWith(DefaultSelves, 0..MaxEmptyTurns,
             [ Transport(0, MaxEmptyCalls) EXCEPT !.empty = TRUE ])

\* Swarm(), any max_turns up to MaxTwinTurns, a transport that does not fail and
\* a model that asks for at most MaxTwinCalls tool calls a turn
InitTwin ==
    InitWith({ [ class |-> "Swarm", exponential_backoff |-> FALSE,
                 retry_callback |-> FALSE ] },
             0..MaxTwinTurns, Transport(0, MaxTwinCalls))

\* two calls of run or run_and_stream on Swarm() or AsyncSwarm(), with the same
\* agent, the same message list, the same context-variable map and max_turns = 1,
\* the second not begun; a transport that does not fail
InitPair ==
    /\ InitCall(DefaultSelves, { 1 }, Transport(0, MaxPairCalls))
    /\ util = NoUtil
    /\ other = [ pc |-> "start", active_agent |-> None,
                 context_variables |-> EmptyDict, history |-> << >>,
                 message |-> NoMessage, script |-> NoScript, pos |-> 0,
                 yielded_start |-> FALSE, tries |-> 0, tool_calls |-> << >>,
                 idx |-> 1, partial_response |-> EmptyPartial, injected |-> << >>,
                 invoked |-> << >>, events |-> << >>, attempts |-> 0,
                 response |-> NoResponse, error |-> None ]

\* the parameter names of the signatures, and a key that names no parameter
Names == << "a", "b", "c", "d" >>
ParamNames == { Names[i] : i \in 1..MaxParams }
ExtraKey == "z"

\* the annotations of the parameters: none, a primitive type, a list of a
\* primitive type, a BaseModel
Annotations == { NoAnnotation, "int", "list[int]", "Model" }

\* the signatures of at most MaxParams parameters: distinct names in any order,
\* any annotation, no default or the default 0
Signatures ==
    { func \in SeqsUpTo([ name : ParamNames, annotation : Annotations,
                          default : { Empty, Plain(0) } ], MaxParams) :
        \A i, j \in DOMAIN func : func[i].name = func[j].name => i = j }

\* the value a model supplies for a key: a list for a list parameter, an object
\* for a BaseModel parameter, a number otherwise
Supplied(func, key) ==
    LET at == { i \in DOMAIN func : func[i].name = key }
        annotation == IF at = { } THEN NoAnnotation
                      ELSE func[CHOOSE i \in at : TRUE].annotation
    IN  CASE annotation = "list[int]" -> ListValue(<< 2, 1 >>)
          [] annotation = "Model" -> ObjectValue(<< 3 >>)
          [] OTHER -> Plain(7)

\* the parsed JSON objects: any keys among the parameter names and the extra key
JsonArgs(func) ==
    { [ key \in keys |-> Supplied(func, key) ]
      : keys \in SUBSET (ParamNames \cup { ExtraKey }) }

\* the strings of at most n characters over a and b
RECURSIVE Strings(_)
Strings(n) ==
    IF n = 0 THEN { "" }
    ELSE Strings(n - 1) \cup { text \o c : text \in Strings(n - 1), c \in { "a", "b" } }

\* the values that are neither str nor dict nor None: a number and a boolean
Others == { OtherOf("1"), OtherOf("True") }

\* the targets of merge_fields: a str, a value of another type and a dict of the
\* two
Targets ==
    { ("s" :> s @@ "n" :> n @@ "d" :> DictOf(("s" :> ds @@ "n" :> dn)))
      : s \in { StrOf(text) : text \in Strings(MaxStr) }, n \in Others,
        ds \in { StrOf(text) : text \in Strings(MaxStr) }, dn \in Others }

\* the partial dicts over the keys s and n: each key left out, None, or a value of
\* the key's type
Partials ==
    { [ key \in keys |-> IF key = "s" THEN s ELSE n ]
      : keys \in SUBSET { "s", "n" },
        s \in { NoneValue } \cup { StrOf(text) : text \in Strings(MaxStr) },
        n \in { NoneValue } \cup Others }

\* the sources of merge_fields: a partial dict, with or without the nested dict d,
\* itself partial, or None in its place
Sources ==
    Partials
    \cup { top @@ ("d" :> d)
           : top \in Partials, d \in { NoneValue } \cup { DictOf(p) : p \in Partials } }

\* no run; a function of util.py is about to be called: function_to_json and
\* json_to_function_args on a signature and a parsed JSON object, or merge_fields
\* on a target and a source
InitUtil ==
    /\ InitCall({ [ class |-> "Swarm", exponential_backoff |-> FALSE,
                    retry_callback |-> FALSE ] }, { 0 }, Transport(0, 0))
    /\ args.stream = FALSE /\ args.execute_tools = TRUE
    /\ other = NoRun
    /\ \/ \E func \in Signatures :
             \E json_args \in JsonArgs(func) :
                util = [ done |-> { }, func |-> func, json_args |-> json_args,
                         schema |-> function_to_json(<< >>),
                         args |-> EmptyDict ]
       \/ \E target \in Targets :
             \E source \in Sources :
                util = [ done |-> { }, target |-> target, source |-> source,
                         merged |-> target ]

----------------------------------------------------------------------------
(* The environment's transport failure *)

CanFail == env.injected < env.budget
\* str(e) of the next failure: failures are numbered so that they can be told apart
NextError == "ConnectionError #" \o ToString(env.injected + 1)
Failed == [ env EXCEPT !.injected = @ + 1 ]

----------------------------------------------------------------------------
(* run / run_and_stream: entry *)

\* a run whose locals are the caller's own objects: C15 is checked against it
Binding_shares(local) == "caller"

\* what the locals history and context_variables are bound to: deep copies of the
\* arguments (run lines 333-334, run_and_stream lines 239-240), not the caller's
\* objects
Binding(local) == "copy"

\* the caller's message list and context-variable map, as the caller sees them
\* once the run's history is hist and its context variables are ctx: a local
\* bound to the caller's object writes through to it
CallerObjects(hist, ctx) ==
    [ args EXCEPT
        !.messages = IF Binding("history") = "caller" THEN hist ELSE @,
        !.context_variables =
            IF Binding("context_variables") = "caller" THEN ctx ELSE @ ]

\* run lines 332-335, run_and_stream lines 238-241
RunStart ==
    /\ pc = "start"
    /\ active_agent' = args.agent
    /\ context_variables' = args.context_variables
    /\ history' = args.messages
    /\ pc' = "loop"
    /\ UNCHANGED << util, other, self, args, message, script, pos, yielded_start, tries,
                    tool_calls, idx, partial_response, request, env, retry_log,
                    slept, injected, invoked, events, attempts, response, error >>

\* the loop condition fails: run line 368, run_and_stream line 303
LoopExit ==
    /\ pc = "loop"
    /\ ~LoopCondition
    /\ response' = MakeResponse(history, active_agent, context_variables)
    /\ events' = YieldResponse(events)
    /\ pc' = "done"
    /\ UNCHANGED << util, other, self, args, active_agent, context_variables, history, message,
                    script, pos, yielded_start, tries, tool_calls, idx,
                    partial_response, request, env, retry_log, slept, injected,
                    invoked, attempts, error >>

----------------------------------------------------------------------------
(* run, stream=False: lines 337-357 *)

\* message.model_dump() with the sender stamped (lines 351-352)
MessageJson(sc, agent) ==
    [ content |-> sc.content, role |-> "assistant", function_call |-> None,
      tool_calls |-> sc.tool_calls, sender |-> agent ]

\* a run that dispatches whatever execute_tools is: C14 is checked against it
EndsTurn_ignores_execute_tools(msg) == ~Truthy(msg.tool_calls)

\* lines 355 / 277: if not message.tool_calls or not execute_tools: break
EndsTurn(msg) == ~Truthy(msg.tool_calls) \/ ~args.execute_tools

\* run_and_stream lines 282-291: the finalized tool calls are made into
\* ChatCompletionMessageToolCall objects, a pydantic model whose type field is
\* Literal["function"]: any other type (None, "") is a ValidationError
ValidToolCalls(calls) == \A i \in DOMAIN calls : calls[i].type = "function"

\* what follows history.append(message): the break of lines 355-357 / 277-279 and
\* the Response, or the tool-call objects (run_and_stream) and the entry of
\* handle_tool_calls (lines 128-132); evs is what has been yielded so far
AfterAppend(msg, hist, evs) ==
    IF EndsTurn(msg)
    THEN /\ pc' = "done"
         /\ response' = MakeResponse(hist, active_agent, context_variables)
         /\ events' = YieldResponse(evs)
         /\ UNCHANGED << tool_calls, idx, partial_response, injected, invoked, error >>
    ELSE IF args.stream /\ ~ValidToolCalls(ListOf(msg.tool_calls))
    THEN /\ pc' = "raised"
         /\ error' = "ValidationError"
         /\ events' = evs
         /\ UNCHANGED << tool_calls, idx, partial_response, injected, invoked,
                         response >>
    ELSE /\ pc' = "dispatch"
         /\ error' = error
         /\ tool_calls' = ListOf(msg.tool_calls)
         /\ idx' = 1
         /\ partial_response' = EmptyPartial
         /\ injected' = << >>
         /\ invoked' = << >>
         /\ events' = evs
         /\ UNCHANGED response

\* sc is the completion that became the assistant message m of a run: a streamed
\* message has the content "" where the completion had none
GaveMessage(sc, m) ==
    /\ sc.tool_calls = m.tool_calls
    /\ \/ sc.content = m.content
       \/ sc.content = None /\ m.content = ""

\* the completions the transport may give for the turn: any of S; in the second of
\* two runs that are given the same model outputs (other is the first run, over),
\* the one the first run was given for this turn
Given(S) ==
    IF other.pc # "twin" THEN S
    ELSE { sc \in S : /\ Len(history) < Len(other.history)
                      /\ GaveMessage(sc, other.history[Len(history) + 1]) }

\* one iteration of run's loop up to the dispatch: the request, the completion,
\* the stamped message appended (lines 337-357)
RunTurn ==
    /\ pc = "loop"
    /\ ~args.stream
    /\ LoopCondition /\ active_agent # None
    /\ \E sc \in Given(Scripts(env)) :
         /\ script' = sc
         /\ request' = CreateParams(active_agent, history, context_variables, FALSE)
         /\ attempts' = 1
         /\ message' = MessageJson(sc, active_agent)
         /\ history' = Append(history, MessageJson(sc, active_agent))
         /\ AfterAppend(MessageJson(sc, active_agent),
                        Append(history, MessageJson(sc, active_agent)), events)
    /\ args' = CallerObjects(history', context_variables)
    /\ UNCHANGED << util, other, self, active_agent, context_variables, pos, yielded_start,
                    tries, env, retry_log, slept >>

\* get_chat_completion raises at line 340: nothing catches it in run
RunTransportError ==
    /\ pc = "loop"
    /\ ~args.stream
    /\ LoopCondition /\ active_agent # None
    /\ CanFail
    /\ request' = CreateParams(active_agent, history, context_variables, FALSE)
    /\ attempts' = 1
    /\ env' = Failed
    /\ error' = NextError
    /\ pc' = "raised"
    /\ UNCHANGED << util, other, self, args, active_agent, context_variables, history, message,
                    script, pos, yielded_start, tries, tool_calls, idx,
                    partial_response, retry_log, slept, injected, invoked, events,
                    response >>

----------------------------------------------------------------------------
(* handle_tool_calls: lines 134-171, one call of the batch per step *)

\* the tool-role message of a call
ToolMessage(tc, content) ==
    [ role |-> "tool", tool_call_id |-> tc.id, tool_name |-> tc.function.name,
      content |-> content ]

\* lines 148-155: the keyword arguments of the invocation.  The sync dispatcher
\* goes through json_to_function_args, the async one takes json.loads as is; the
\* context variables handed over are the run's map
ToolKwargs(name, arguments, ctx) ==
    LET parsed == IF self.class = "Swarm"
                  THEN json_to_function_args(Signature(name), JsonLoads(arguments))
                  ELSE JsonLoads(arguments)
    IN  IF DeclaresCtx(name) THEN DictUpdate(parsed, (CTX_VARS_NAME :> ctx))
        ELSE parsed

\* a dispatcher in which the first update of a key stands: C4 is checked against it
AddResult_first_update_stands(partial, tc, result) ==
    [ messages |-> Append(partial.messages, ToolMessage(tc, result.value)),
      context_variables |->
          DictUpdate(result.context_variables, partial.context_variables),
      agent |-> IF result.agent # None THEN result.agent ELSE partial.agent ]

\* a dispatcher that puts each tool message before the earlier ones: C7 is checked
\* against it
AddResult_prepends(partial, tc, result) ==
    [ messages |-> << ToolMessage(tc, result.value) >> \o partial.messages,
      context_variables |->
          DictUpdate(partial.context_variables, result.context_variables),
      agent |-> IF result.agent # None THEN result.agent ELSE partial.agent ]

\* a dispatcher in which the first agent returned in a batch stands: C29 is
\* checked against it
AddResult_first_agent_stands(partial, tc, result) ==
    [ messages |-> Append(partial.messages, ToolMessage(tc, result.value)),
      context_variables |->
          DictUpdate(partial.context_variables, result.context_variables),
      agent |-> IF partial.agent # None THEN partial.agent ELSE result.agent ]

\* lines 158-169: the partial response after a call that returned result
AddResult(partial, tc, result) ==
    [ messages |-> Append(partial.messages, ToolMessage(tc, result.value)),
      context_variables |->
          DictUpdate(partial.context_variables, result.context_variables),
      agent |-> IF result.agent # None THEN result.agent ELSE partial.agent ]

\* a dispatcher that skips an unknown tool without a message: C6 is checked
\* against it
AddNotFound_silent(partial, tc) == partial

\* lines 137-147: the partial response after a call of an unknown tool
AddNotFound(partial, tc) ==
    [ partial EXCEPT !.messages =
        Append(@, ToolMessage(tc, "Error: Tool " \o tc.function.name \o " not found.")) ]

HandleToolCall ==
    /\ pc = "dispatch"
    /\ idx <= Len(tool_calls)
    /\ LET tc == tool_calls[idx]
           name == tc.function.name
           function_map == Range(AgentFunctions(active_agent))
       IN  IF name \notin function_map
           THEN /\ partial_response' = AddNotFound(partial_response, tc)
                /\ idx' = idx + 1
                /\ UNCHANGED << pc, error, injected, invoked >>
           ELSE IF ~JsonValid(tc.function.arguments)
           THEN /\ pc' = "raised"
                /\ error' = "JSONDecodeError"
                /\ UNCHANGED << partial_response, idx, injected, invoked >>
           ELSE IF ToolReturn(name, ToolKwargs(name, tc.function.arguments,
                                               context_variables)).kind = "raise"
           THEN /\ pc' = "raised"
                /\ error' = ToolReturn(name, ToolKwargs(name, tc.function.arguments,
                                                        context_variables)).value
                /\ invoked' = Append(invoked, name)
                /\ UNCHANGED << partial_response, idx, injected >>
           ELSE IF ~Coercible(ToolReturn(name, ToolKwargs(name, tc.function.arguments,
                                                          context_variables)))
           THEN /\ pc' = "raised"
                /\ error' = "TypeError"
                /\ invoked' = Append(invoked, name)
                /\ UNCHANGED << partial_response, idx, injected >>
           ELSE LET kwargs == ToolKwargs(name, tc.function.arguments, context_variables)
                    result == handle_function_result(ToolReturn(name, kwargs))
                IN  /\ partial_response' = AddResult(partial_response, tc, result)
                    /\ idx' = idx + 1
                    /\ invoked' = Append(invoked, name)
                    /\ injected' =
                          IF CTX_VARS_NAME \in DOMAIN kwargs
                          THEN Append(injected, [ call |-> idx,
                                                  context_variables |-> kwargs[CTX_VARS_NAME] ])
                          ELSE injected
                    /\ UNCHANGED << pc, error >>
    /\ UNCHANGED << util, other, self, args, active_agent, context_variables, history, message,
                    script, pos, yielded_start, tries, tool_calls, request, env,
                    retry_log, slept, events, attempts, response >>

\* a run loop that never switches agents: C3 is checked against it
NextAgent_never_switches(partial, current) == current

\* lines 365-366 / 300-301: the agent of the partial response becomes active
NextAgent(partial, current) ==
    IF partial.agent # None THEN partial.agent ELSE current

\* a run loop that takes the delta's map for the run's: C30 is checked against it
MergeContext_replaces(ctx, partial) == partial.context_variables

\* line 364 / 299: context_variables.update(partial_response.context_variables)
MergeContext(ctx, partial) == DictUpdate(ctx, partial.context_variables)

\* a dispatch that puts its messages in front: C32 is checked against it
ExtendHistory_prepends(hist, partial) == partial.messages \o hist

\* line 363 / 298: history.extend(partial_response.messages)
ExtendHistory(hist, partial) == hist \o partial.messages

\* handle_tool_calls has returned: run lines 363-366, run_and_stream lines 297-301
ReturnPartial ==
    /\ pc = "dispatch"
    /\ idx > Len(tool_calls)
    /\ events' = IF args.stream
                 THEN Append(events, [ kind |-> "partial_response", value |-> "" ])
                 ELSE events
    /\ history' = ExtendHistory(history, partial_response)
    /\ context_variables' = MergeContext(context_variables, partial_response)
    /\ active_agent' = NextAgent(partial_response, active_agent)
    /\ pc' = "loop"
    /\ args' = CallerObjects(history', context_variables')
    /\ UNCHANGED << util, other, self, message, script, pos, yielded_start, tries,
                    tool_calls, idx, partial_response, request, env, retry_log,
                    slept, injected, invoked, attempts, response, error >>

----------------------------------------------------------------------------
(* run_and_stream and _get_streaming_completion_with_retry *)

\* the buffer of lines 245-257; its sender is the name of the agent argument
NewBuffer ==
    [ content |-> "", sender |-> args.agent, role |-> "assistant",
      function_call |-> None, tool_calls |-> Some(<< >>) ]

\* lines 243-258 and 182: a new iteration, the buffer, tries = 0.  The transport
\* answers every attempt of the turn with the same completion
StreamTurn ==
    /\ pc = "loop"
    /\ args.stream
    /\ LoopCondition
    /\ message' = NewBuffer
    /\ tries' = 0
    /\ attempts' = 0
    /\ script' \in Given(StreamScripts(env))
    /\ pc' = "attempt"
    /\ UNCHANGED << util, other, self, args, active_agent, context_variables, history, pos,
                    yielded_start, tool_calls, idx, partial_response, request,
                    env, retry_log, slept, injected, invoked, events, response,
                    error >>

\* lines 185-195: the request is sent and a stream comes back
StreamOpen ==
    /\ pc = "attempt"
    /\ request' = CreateParams(active_agent, history, context_variables, TRUE)
    /\ attempts' = attempts + 1
    /\ pos' = 0
    /\ yielded_start' = FALSE
    /\ pc' = "stream"
    /\ UNCHANGED << util, other, self, args, active_agent, context_variables, history, message,
                    script, tries, tool_calls, idx, partial_response, env,
                    retry_log, slept, injected, invoked, events, response, error >>

\* lines 203-206: the delta as it is yielded, with the sender on an
\* assistant-role delta
Yielded(delta) ==
    IF delta.role = "assistant" THEN delta @@ ("sender" :> active_agent) ELSE delta

\* lines 207-210 and util.py lines 27-32: the yielded dict once the generator has
\* gone on to the merge.  to_merge = delta.copy() copies the top level only, so
\* role and sender are popped from the copy alone, while the list under
\* tool_calls and the dicts in it are the yielded dict's own: merge_chunk pops
\* "index" and "type" from the first of them
AfterMerge(delta) ==
    IF delta.tool_calls = << >> THEN delta
    ELSE LET first == delta.tool_calls[1]
             popped == [ k \in DOMAIN first \ { "index", "type" } |-> first[k] ]
         IN  [ delta EXCEPT !.tool_calls = << popped >> \o Tail(delta.tool_calls) ]

\* lines 197-210: the next chunk of the stream: the start delimiter before the
\* first, the delta (with the sender on an assistant-role delta) yielded, its copy
\* without role and sender merged into the buffer.  The event keeps the delta as
\* it was yielded and the yielded dict as the merge leaves it
StreamChunk ==
    /\ pc = "stream"
    /\ pos < Len(Fragments(script))
    /\ LET delta == Fragments(script)[pos + 1]
           sender == IF delta.role = "assistant" THEN active_agent ELSE None
       IN  /\ events' = events
                 \o (IF yielded_start THEN << >>
                     ELSE << [ kind |-> "delim", value |-> "start" ] >>)
                 \o << [ kind |-> "delta", value |-> sender,
                        yielded |-> Yielded(delta),
                        object |-> AfterMerge(Yielded(delta)) ] >>
           /\ message' = merge_chunk(message, delta)
    /\ yielded_start' = TRUE
    /\ pos' = pos + 1
    /\ UNCHANGED << util, other, self, args, pc, active_agent, context_variables, history,
                    script, tries, tool_calls, idx, partial_response, request,
                    env, retry_log, slept, injected, invoked, attempts, response,
                    error >>

\* lines 269-272: the in-progress tool calls as a list, None when empty
FinalToolCalls(buffer) ==
    IF ListOf(buffer.tool_calls) = << >> THEN NoneList
    ELSE Some([ i \in DOMAIN ListOf(buffer.tool_calls) |->
                  [ id |-> ListOf(buffer.tool_calls)[i].id,
                    type |-> ListOf(buffer.tool_calls)[i].type,
                    function |-> ListOf(buffer.tool_calls)[i].function ] ])

\* the sender of the finalized message: Swarm.run_and_stream stamps the active
\* agent's name (line 274); AsyncSwarm.run_and_stream has no such line and the
\* buffer keeps the sender it was created with
FinalSender(buffer) ==
    IF self.class = "Swarm" THEN active_agent ELSE buffer.sender

\* lines 269-275
Finalize(buffer) ==
    [ buffer EXCEPT !.tool_calls = FinalToolCalls(buffer),
                    !.sender = FinalSender(buffer) ]

\* the stream is exhausted: the end delimiter (line 212), the message finalized
\* and appended (lines 269-275), then the break or the dispatch
StreamEnd ==
    /\ pc = "stream"
    /\ pos = Len(Fragments(script))
    /\ message' = Finalize(message)
    /\ history' = Append(history, Finalize(message))
    /\ AfterAppend(Finalize(message), Append(history, Finalize(message)),
                   Append(events, [ kind |-> "delim", value |-> "end" ]))
    /\ args' = CallerObjects(history', context_variables)
    /\ UNCHANGED << util, other, self, active_agent, context_variables, script, pos,
                    yielded_start, tries, request, env, retry_log, slept,
                    attempts >>

\* a handler that counts the attempt before it reports it: C8 is checked against it
RetryState_counts_first(e) ==
    [ error |-> e, tries |-> tries + 1,
      sleep_time |-> IF self.exponential_backoff THEN RETRY_TIMES[tries + 1] ELSE 0 ]

\* the RetryState handed to retry_callback (lines 217-221)
RetryState(e) ==
    [ error |-> e, tries |-> tries,
      sleep_time |-> IF self.exponential_backoff THEN RETRY_TIMES[tries + 1] ELSE 0 ]

\* the exception is raised again (lines 224-225)
GivesUp(n) == n >= Len(RETRY_TIMES) \/ ~self.exponential_backoff

\* the except clause, lines 214-226
ExceptHandler(e) ==
    /\ retry_log' = IF self.retry_callback THEN Append(retry_log, RetryState(e))
                    ELSE retry_log
    /\ tries' = tries + 1
    /\ IF GivesUp(tries + 1)
       THEN /\ pc' = "raised"
            /\ error' = e
            /\ slept' = slept
       ELSE /\ slept' = Append(slept, RETRY_TIMES[tries + 2])
            /\ pc' = "attempt"
            /\ error' = error

\* get_chat_completion raises inside the try (line 185)
OpenError ==
    /\ pc = "attempt"
    /\ CanFail
    /\ request' = CreateParams(active_agent, history, context_variables, TRUE)
    /\ attempts' = attempts + 1
    /\ env' = Failed
    /\ ExceptHandler(NextError)
    /\ UNCHANGED << util, other, self, args, active_agent, context_variables, history, message,
                    script, pos, yielded_start, tool_calls, idx, partial_response,
                    injected, invoked, events, response >>

\* the iteration over the stream raises (line 197), before or after some chunks
StreamError ==
    /\ pc = "stream"
    /\ CanFail
    /\ env' = Failed
    /\ ExceptHandler(NextError)
    /\ UNCHANGED << util, other, self, args, active_agent, context_variables, history, message,
                    script, pos, yielded_start, tool_calls, idx, partial_response,
                    request, injected, invoked, events, attempts, response >>

----------------------------------------------------------------------------
(* Two runs on one orchestrator *)

\* the locals of the running call: what its generator or coroutine frame holds
Frame ==
    [ pc |-> pc, active_agent |-> active_agent,
      context_variables |-> context_variables, history |-> history,
      message |-> message, script |-> script, pos |-> pos,
      yielded_start |-> yielded_start, tries |-> tries, tool_calls |-> tool_calls,
      idx |-> idx, partial_response |-> partial_response, injected |-> injected,
      invoked |-> invoked, events |-> events, attempts |-> attempts,
      response |-> response, error |-> error ]

\* the running call can be left for the other one: it has not begun or is over;
\* or it is a generator (run_and_stream), which is left at its yields; or a
\* coroutine of AsyncSwarm, which is left at its awaits.  A step that holds a
\* yield or an await is left at its end: what follows the yield or await in the
\* step writes to the locals of the frame only
Suspended ==
    \/ pc \in { "start", "done", "raised" }
    \/ args.stream
    \/ self.class = "AsyncSwarm"

\* what a local of a resumed frame holds: the frame's own object, or, were the
\* local bound to the caller's object, that object as it is now
Resumed(local, own, callers) == IF Binding(local) = "caller" THEN callers ELSE own

\* the consumer (or the event loop) leaves the running call and takes a step of
\* the other one.  self, the caller's objects (args) and the transport are what
\* the two calls have in common
Switch ==
    /\ other # NoRun
    /\ Suspended
    /\ other.pc \notin { "done", "raised" }
    /\ other' = Frame
    /\ pc' = other.pc
    /\ active_agent' = other.active_agent
    /\ context_variables' =
          IF other.pc = "start" THEN other.context_variables
          ELSE Resumed("context_variables", other.context_variables,
                       args.context_variables)
    /\ history' =
          IF other.pc = "start" THEN other.history
          ELSE Resumed("history", other.history, args.messages)
    /\ message' = other.message
    /\ script' = other.script
    /\ pos' = other.pos
    /\ yielded_start' = other.yielded_start
    /\ tries' = other.tries
    /\ tool_calls' = other.tool_calls
    /\ idx' = other.idx
    /\ partial_response' = other.partial_response
    /\ injected' = other.injected
    /\ invoked' = other.invoked
    /\ events' = other.events
    /\ attempts' = other.attempts
    /\ response' = other.response
    /\ error' = other.error
    /\ UNCHANGED << util, self, args, request, env, retry_log, slept >>

----------------------------------------------------------------------------
(* util.function_to_json and util.json_to_function_args, called outside a run *)

\* function_to_json(func) returns
FunctionToJson ==
    /\ "func" \in DOMAIN util
    /\ "function_to_json" \notin util.done
    /\ util' = [ util EXCEPT !.done = @ \cup { "function_to_json" },
                             !.schema = function_to_json(util.func) ]
    /\ UNCHANGED << self, args, pc, active_agent, context_variables, history,
                    message, script, pos, yielded_start, tries, tool_calls, idx,
                    partial_response, request, env, retry_log, slept, injected,
                    invoked, events, attempts, response, error, other >>

\* json_to_function_args(func, json_args) returns
JsonToFunctionArgs ==
    /\ "func" \in DOMAIN util
    /\ "json_to_function_args" \notin util.done
    /\ util' = [ util EXCEPT !.done = @ \cup { "json_to_function_args" },
                             !.args = json_to_function_args(util.func, util.json_args) ]
    /\ UNCHANGED << self, args, pc, active_agent, context_variables, history,
                    message, script, pos, yielded_start, tries, tool_calls, idx,
                    partial_response, request, env, retry_log, slept, injected,
                    invoked, events, attempts, response, error, other >>

\* merge_fields(target, source) returns: target has been updated in place
MergeFields ==
    /\ "target" \in DOMAIN util
    /\ "merge_fields" \notin util.done
    /\ util' = [ util EXCEPT !.done = @ \cup { "merge_fields" },
                             !.merged = merge_fields(util.target, util.source) ]
    /\ UNCHANGED << self, args, pc, active_agent, context_variables, history,
                    message, script, pos, yielded_start, tries, tool_calls, idx,
                    partial_response, request, env, retry_log, slept, injected,
                    invoked, events, attempts, response, error, other >>

----------------------------------------------------------------------------
(* The same call on Swarm and on AsyncSwarm *)

\* Swarm.run or run_and_stream has returned; AsyncSwarm() is constructed (async
\* __init__, lines 41-57) and its run is called with the same arguments (lines
\* 312-322) over a transport that gives the same completions.  The finished run
\* is kept in other
RunAgain ==
    /\ pc = "done"
    /\ other = NoRun
    /\ self.class = "Swarm"
    /\ other' = [ Frame EXCEPT !.pc = "twin" ]
    /\ self' = [ class |-> "AsyncSwarm", exponential_backoff |-> TRUE,
                 retry_callback |-> self.retry_callback ]
    /\ pc' = "start"
    /\ active_agent' = None
    /\ context_variables' = EmptyDict
    /\ history' = << >>
    /\ message' = NoMessage
    /\ script' = NoScript
    /\ pos' = 0
    /\ yielded_start' = FALSE
    /\ tries' = 0
    /\ tool_calls' = << >>
    /\ idx' = 1
    /\ partial_response' = EmptyPartial
    /\ request' = NoRequest
    /\ retry_log' = << >>
    /\ slept' = << >>
    /\ injected' = << >>
    /\ invoked' = << >>
    /\ events' = << >>
    /\ attempts' = 0
    /\ response' = NoResponse
    /\ error' = None
    /\ UNCHANGED << util, args, env >>

----------------------------------------------------------------------------
(* Specifications *)

\* the steps of a run whose transport does not fail
Next ==
    \/ RunStart
    \/ LoopExit
    \/ RunTurn
    \/ HandleToolCall
    \/ ReturnPartial
    \/ StreamTurn
    \/ StreamOpen
    \/ StreamChunk
    \/ StreamEnd

\* and those of a run whose transport may fail
NextRetry ==
    \/ Next
    \/ RunTransportError
    \/ OpenError
    \/ StreamError

\* the turn loop and the dispatcher, over a transport that does not fail
Spec == Init /\ [][Next]_vars

\* the retry policy, over a transport that fails
SpecRetry == InitRetry /\ [][NextRetry]_vars

\* where the program is: every step of it moves on in the loop, in the batch, in
\* the stream or to the next attempt
Position == << pc, idx, pos, attempts >>

\* the same, the program running on: no step of it waits for anything but the
\* transport and a finite sleep
SpecRetryLive == SpecRetry /\ WF_Position(NextRetry)

\* the chunk merger, over a transport that cuts tool calls in every style
SpecMerge == InitMerge /\ [][Next]_vars

\* the dispatcher, over a model that asks for every tool of the registry
SpecTools == InitTools /\ [][Next]_vars

\* the finalization of a streamed turn, over a transport that delivers the tool
\* calls in either order
SpecOrder == InitOrder /\ [][Next]_vars

\* the turn loop and the event stream, over a transport that may deliver a
\* stream of no fragment
SpecEmpty == InitEmpty /\ [][Next]_vars

\* a call on Swarm, then the same call on AsyncSwarm with the same model outputs
NextTwin ==
    \/ Next
    \/ RunAgain

SpecTwin == InitTwin /\ [][NextTwin]_vars

\* the turn loop running on: the transport and the tools always return, and the
\* consumer of run_and_stream takes every event
SpecLive == InitLive /\ [][Next]_vars /\ WF_Position(Next)

\* the functions of util.py on every signature and JSON object, and on every
\* target and source
NextUtil ==
    \/ FunctionToJson
    \/ JsonToFunctionArgs
    \/ MergeFields

SpecUtil == InitUtil /\ [][NextUtil]_vars

\* the steps of two calls on one orchestrator
NextPair ==
    \/ Next
    \/ Switch

\* two calls with the same arguments on one orchestrator, interleaved
SpecPair == InitPair /\ [][NextPair]_vars

----------------------------------------------------------------------------
(* Vocabulary of the claims *)

\* the messages the run has appended to history
Produced == SubSeq(history, InitLen + 1, Len(history))

IsAssistant(m) == m.role = "assistant"
IsTool(m) == m.role = "tool"

\* the number of assistant messages of a message list
RECURSIVE CountAssistant(_)
CountAssistant(msgs) ==
    IF msgs = << >> THEN 0
    ELSE (IF IsAssistant(Head(msgs)) THEN 1 ELSE 0) + CountAssistant(Tail(msgs))

\* what the registry's tools return, whatever their arguments: the agent and the
\* context-variable updates of the normalised Result
ReturnedResult(name) ==
    handle_function_result(ToolReturn(name, (CTX_VARS_NAME :> EmptyDict)))

\* the text of the error message of an unknown tool
NotFoundText(name) == "Error: Tool " \o name \o " not found."

\* the agent a tool-role message of history hands off to, None when it reports no
\* hand-off: the message of a tool that was invoked and returned an agent
HandOffOf(m) ==
    IF IsTool(m) /\ m.tool_name \in ToolNames /\ m.content # NotFoundText(m.tool_name)
    THEN ReturnedResult(m.tool_name).agent
    ELSE None

\* the agent that is active once the first n messages of hist are in place: the
\* agent argument, then the agent of the last hand-off
RECURSIVE AgentAfter(_, _)
AgentAfter(hist, n) ==
    IF n = 0 THEN args.agent
    ELSE IF n > InitLen /\ HandOffOf(hist[n]) # None THEN HandOffOf(hist[n])
    ELSE AgentAfter(hist, n - 1)

\* the run has returned a Response
Returned == pc = "done"

----------------------------------------------------------------------------
(* C1 *)

\* every assistant message of the run requested at least one tool call
EveryTurnCallsTools ==
    \A i \in DOMAIN Produced :
        IsAssistant(Produced[i]) => Truthy(Produced[i].tool_calls)

\* C1: with max_turns = N >= 1 and execute_tools true, a run whose every model
\* turn requests a tool call returns only when N assistant messages have been
\* produced.
C1_StopsAtNAssistantMessages ==
    ( /\ Returned
      /\ args.max_turns >= 1
      /\ args.execute_tools
      /\ EveryTurnCallsTools )
    => CountAssistant(response.messages) = args.max_turns

----------------------------------------------------------------------------
(* C2 *)

\* C2: every assistant message of history carries as sender the name of the agent
\* that was active when its turn's request was made: the agent argument, or the
\* agent of the last hand-off before it.
C2_SenderIsActiveAgent ==
    \A i \in DOMAIN history :
        (i > InitLen /\ IsAssistant(history[i]))
        => history[i].sender = AgentAfter(history, i - 1)

----------------------------------------------------------------------------
(* C3 *)

Last(seq) == seq[Len(seq)]

\* the first index of the run of tool-role messages of hist that ends at e
RECURSIVE BatchStart(_, _)
BatchStart(hist, e) ==
    IF e >= 1 /\ IsTool(hist[e]) THEN BatchStart(hist, e - 1) ELSE e + 1

\* the tool-role messages of the last batch of history: those before the last
\* assistant message when history ends with one, the trailing ones otherwise
PrevBatchEnd ==
    IF Len(history) > InitLen /\ IsAssistant(Last(history))
    THEN Len(history) - 1 ELSE Len(history)
PrevBatch == SubSeq(history, BatchStart(history, PrevBatchEnd), PrevBatchEnd)

\* the agents the batch hands off to, and the one of its last hand-off
HandOffs(batch) == { HandOffOf(batch[i]) : i \in DOMAIN batch } \ { None }
RECURSIVE LastHandOff(_)
LastHandOff(batch) ==
    IF batch = << >> THEN None
    ELSE IF HandOffOf(Last(batch)) # None THEN HandOffOf(Last(batch))
    ELSE LastHandOff(SubSeq(batch, 1, Len(batch) - 1))

\* the request of the turn after that batch has been sent
NextTurnRequested ==
    \/ pc = "stream"
    \/ pc \in { "dispatch", "done" } /\ Len(history) > InitLen
                                     /\ IsAssistant(Last(history))

\* the turn after the batch is requested and dispatched as agent b: its request
\* holds b's instructions and b's tools, its tool calls are resolved against b's
\* tools
TurnRunsAs(b) ==
    /\ NextTurnRequested =>
         /\ request.messages[1] =
               [ role |-> "system", content |-> AgentInstructions(b, context_variables) ]
         /\ [ i \in DOMAIN ListOf(request.tools) |-> ListOf(request.tools)[i].name ]
               = AgentFunctions(b)
    /\ (pc = "dispatch" /\ NextTurnRequested) =>
         \A p \in DOMAIN partial_response.messages :
            (partial_response.messages[p].content
                = NotFoundText(tool_calls[p].function.name))
            <=> (tool_calls[p].function.name \notin Range(AgentFunctions(b)))

\* no hand-off follows that to b, in the batch or after it, and the run returns b
ReturnsAgent(b) ==
    (Returned /\ b = LastHandOff(PrevBatch)) => response.agent = b

\* C3 as stated: whenever some tool call of turn K returned agent B, turn K+1 is
\* requested with B's instructions and tools and dispatched against B's tools, and
\* a run that ends without a later hand-off returns B.
C3_AnyHandOffDecidesNextTurn ==
    \A b \in AgentNames :
        /\ b \in HandOffs(PrevBatch) => TurnRunsAs(b)
        /\ ReturnsAgent(b)

\* C3 (amended): whenever the last agent-returning tool call of turn K returned
\* agent B, the request of turn K+1 is built from B's instructions and B's tool
\* set, the tool calls of turn K+1 are resolved against B's tools, and a run that
\* ends without a later hand-off returns B as its agent.
C3_LastHandOffDecidesNextTurn ==
    \A b \in AgentNames :
        /\ b = LastHandOff(PrevBatch) => TurnRunsAs(b)
        /\ ReturnsAgent(b)

\* turn 1 handed off to B, and turn 2 asked for set_x, which A has and B has not
C3_Witness ==
    /\ pc = "dispatch" /\ idx = 2
    /\ LastHandOff(PrevBatch) = "B"
    /\ args.agent = "A"
    /\ tool_calls[1].function.name = "set_x"
    /\ partial_response.messages[1].content = NotFoundText("set_x")

----------------------------------------------------------------------------
(* C4, C5 *)

\* the batch is resolved against the active agent's tools
Known(tc) == tc.function.name \in Range(AgentFunctions(active_agent))

\* the context-variable updates a call of the batch returns
CallUpdates(tc) ==
    IF Known(tc) THEN ReturnedResult(tc.function.name).context_variables
    ELSE EmptyDict

\* the union of the updates of calls, the later call winning on a key
UnionLaterWins(calls) ==
    LET keys == UNION { DOMAIN CallUpdates(calls[i]) : i \in DOMAIN calls }
        last(k) == CHOOSE i \in DOMAIN calls :
                      /\ k \in DOMAIN CallUpdates(calls[i])
                      /\ \A j \in DOMAIN calls :
                            k \in DOMAIN CallUpdates(calls[j]) => j <= i
    IN  [ k \in keys |-> CallUpdates(calls[last(k)])[k] ]

\* prev overlaid by delta
Overlay(prev, delta) ==
    [ k \in DOMAIN prev \cup DOMAIN delta |->
        IF k \in DOMAIN delta THEN delta[k] ELSE prev[k] ]

\* handle_tool_calls is about to return to the run loop
BatchDone == pc = "dispatch" /\ idx > Len(tool_calls)

\* C4: when handle_tool_calls returns, its context-variable delta is the union of
\* the updates the calls of the batch returned, the later call winning on a key
\* conflict, and the step that merges it leaves the run's context variables equal
\* to the previous map overlaid by that delta.
C4_DeltaIsUnionLaterWins ==
    [][ BatchDone =>
          /\ partial_response.context_variables = UnionLaterWins(tool_calls)
          /\ context_variables' =
                Overlay(context_variables, UnionLaterWins(tool_calls)) ]_vars

\* the batch [set_x, to_A] has been merged: both wrote x, to_A's value stands, and
\* the caller's key k is still there
C4_Witness ==
    /\ pc = "loop" /\ Len(tool_calls) = 2 /\ idx = 3
    /\ tool_calls[1].function.name = "set_x"
    /\ tool_calls[2].function.name = "to_A"
    /\ invoked = << "set_x", "to_A" >>
    /\ context_variables = ("k" :> "0" @@ "x" :> "2" @@ "y" :> "2")

\* C5: the context-variable map injected into the i-th call of a batch contains
\* the updates returned by calls 1..i-1 of that batch.
C5_InjectedMapHoldsEarlierUpdates ==
    pc = "dispatch" =>
        \A n \in DOMAIN injected :
            LET earlier == UnionLaterWins(SubSeq(tool_calls, 1, injected[n].call - 1))
                given == injected[n].context_variables
            IN  \A k \in DOMAIN earlier :
                    k \in DOMAIN given /\ given[k] = earlier[k]

----------------------------------------------------------------------------
(* C6 *)

\* the calls of the batch that have been processed
Processed == SubSeq(tool_calls, 1, idx - 1)

\* the names of the known calls among calls, in order
RECURSIVE KnownNames(_)
KnownNames(calls) ==
    IF calls = << >> THEN << >>
    ELSE (IF Known(Head(calls)) THEN << Head(calls).function.name >> ELSE << >>)
         \o KnownNames(Tail(calls))

\* the error message the dispatcher owes to an unknown call
NotFoundMessage(tc) ==
    [ role |-> "tool", tool_call_id |-> tc.id, tool_name |-> tc.function.name,
      content |-> NotFoundText(tc.function.name) ]

\* the dispatcher is at a call whose name is not in the active agent's tool set
AtUnknownCall == pc = "dispatch" /\ idx <= Len(tool_calls) /\ ~Known(tool_calls[idx])

\* C6: the step that processes a call of an unknown tool stays in the batch, adds
\* exactly one tool-role message with the call's id and the text 'Error: Tool
\* <name> not found.', invokes no tool and leaves the delta's context variables and
\* agent as they were; and handle_tool_calls returns only when every call of the
\* batch has been processed, with one message per call and only the known calls
\* invoked.
C6_UnknownToolDoesNotAbort ==
    /\ [][ AtUnknownCall =>
             /\ pc' = "dispatch"
             /\ idx' = idx + 1
             /\ partial_response'.messages =
                   Append(partial_response.messages, NotFoundMessage(tool_calls[idx]))
             /\ invoked' = invoked
             /\ injected' = injected
             /\ partial_response'.context_variables = partial_response.context_variables
             /\ partial_response'.agent = partial_response.agent
             /\ error' = error ]_vars
    /\ [][ (pc = "dispatch" /\ pc' # "dispatch") =>
             /\ pc' = "loop"
             /\ idx = Len(tool_calls) + 1
             /\ Len(partial_response.messages) = Len(tool_calls)
             /\ invoked = KnownNames(tool_calls) ]_vars

\* the batch [echo, set_x] of agent A, which has no echo: two tool-role messages,
\* the error first, and set_x invoked
C6_Witness ==
    /\ pc = "dispatch" /\ idx = 3 /\ Len(tool_calls) = 2
    /\ active_agent = "A"
    /\ tool_calls[1].function.name = "echo"
    /\ tool_calls[2].function.name = "set_x"
    /\ Len(partial_response.messages) = 2
    /\ partial_response.messages[1] = NotFoundMessage(tool_calls[1])
    /\ partial_response.messages[2].content = "done"
    /\ invoked = << "set_x" >>
    /\ partial_response.context_variables = ("x" :> "1")

----------------------------------------------------------------------------
(* C7 *)

\* the assistant message at i asked for tool calls and they were dispatched: the
\* run went on after it
Dispatched(i) ==
    /\ i > InitLen /\ IsAssistant(history[i]) /\ Truthy(history[i].tool_calls)
    /\ i < Len(history)

\* C7: every assistant message of history whose k tool calls were dispatched is
\* followed at once by exactly k tool-role messages that carry the ids of those
\* calls in the same order, and what comes after them, if anything, is the next
\* assistant message; an assistant message with tool calls stays last in history
\* only while its batch is being dispatched or when tools are not executed.
C7_ToolMessagesFollowTheirTurn ==
    \A i \in DOMAIN history :
        /\ Dispatched(i) =>
             LET calls == ListOf(history[i].tool_calls)
                 k == Len(calls)
             IN  /\ i + k <= Len(history)
                 /\ \A j \in 1..k :
                       /\ IsTool(history[i + j])
                       /\ history[i + j].tool_call_id = calls[j].id
                 /\ (i + k < Len(history)) => IsAssistant(history[i + k + 1])
        /\ ( /\ i > InitLen /\ i = Len(history)
             /\ IsAssistant(history[i]) /\ Truthy(history[i].tool_calls) )
           => (pc = "dispatch" \/ (pc = "done" /\ ~args.execute_tools))

\* a turn of two tool calls, its two tool messages, and the next turn's message
C7_Witness ==
    /\ Len(history) = InitLen + 4
    /\ Dispatched(InitLen + 1)
    /\ Len(ListOf(history[InitLen + 1].tool_calls)) = 2
    /\ history[InitLen + 2].tool_call_id = "call_1"
    /\ history[InitLen + 3].tool_call_id = "call_2"
    /\ IsAssistant(history[InitLen + 4])

----------------------------------------------------------------------------
(* C8, C9, C10 *)

\* the attempt counts the observer callback was given, in order
ReportedTries == [ i \in DOMAIN retry_log |-> retry_log[i].tries ]

\* the transport failed on three attempts of the turn in a row and the fourth
\* succeeded
FailedThriceThenSucceeded ==
    /\ self.exponential_backoff
    /\ attempts = 4 /\ env.injected = 3
    /\ pc \in { "dispatch", "loop", "done" }

\* C8: with backoff enabled, once the transport has failed on three consecutive
\* attempts of a turn and succeeded on the fourth, the observer callback has been
\* invoked exactly three times, with the attempt counts 0, 1, 2 in that order, no
\* error is raised, and the run goes on to return a Response.
C8_ThreeFailuresThreeCallbacks ==
    /\ [](FailedThriceThenSucceeded =>
            /\ self.retry_callback => ReportedTries = << 0, 1, 2 >>
            /\ error = None
            /\ Returned =>
                 response = MakeResponse(history, active_agent, context_variables))
    /\ (FailedThriceThenSucceeded ~> Returned)

\* the run has returned after three failures and a success, the callback set
C8_Witness ==
    /\ FailedThriceThenSucceeded
    /\ self.retry_callback
    /\ Returned
    /\ Len(retry_log) = 3
    /\ Len(response.messages) >= 1

\* the run has raised to the caller
Raised == pc = "raised"

\* C9: in both modes, a failed model request invokes the observer callback, and the
\* error reaches the caller only once the attempts have reached the length of the
\* table or backoff is disabled.
C9_TransportFailureIsRetried ==
    Raised =>
        /\ self.retry_callback => Len(retry_log) >= 1
        /\ ~self.exponential_backoff \/ attempts >= Len(RETRY_TIMES)

\* C10: a turn makes at most 5 attempts; when the error is raised, backoff disabled
\* means it is the first failure's, backoff enabled means the attempts have reached
\* the length of the table; the error raised is the last transport error, and the
\* observer callback has been invoked once per failed attempt.
C10_RetryIsBounded ==
    /\ attempts <= Len(RETRY_TIMES)
    /\ Raised =>
        /\ ~self.exponential_backoff => (attempts = 1 /\ env.injected = 1)
        /\ self.exponential_backoff => attempts = Len(RETRY_TIMES)
        /\ error = "ConnectionError #" \o ToString(env.injected)
        /\ self.retry_callback =>
             /\ Len(retry_log) = env.injected
             /\ \A i \in DOMAIN retry_log :
                   retry_log[i].error = "ConnectionError #" \o ToString(i)

----------------------------------------------------------------------------
(* C11 *)

\* where a consumer of the events stands between the delimiters: "closed" outside
\* a turn's stream, "started" after a start delimiter, "open" after a fragment,
\* "bad" once an event came out of place (a second start delimiter, a fragment
\* without a start delimiter, an end delimiter without a fragment, a partial
\* response or a Response inside a turn's stream)
DelimStep(st, e) ==
    CASE st = "bad" -> "bad"
      [] e.kind = "delim" /\ e.value = "start" ->
            IF st = "closed" THEN "started" ELSE "bad"
      [] e.kind = "delta" ->
            IF st \in { "started", "open" } THEN "open" ELSE "bad"
      [] e.kind = "delim" /\ e.value = "end" ->
            IF st = "open" THEN "closed" ELSE "bad"
      [] OTHER ->
            IF st = "closed" THEN "closed" ELSE "bad"

RECURSIVE DelimState(_)
DelimState(evs) ==
    IF evs = << >> THEN "closed"
    ELSE DelimStep(DelimState(SubSeq(evs, 1, Len(evs) - 1)), Last(evs))

\* the number of events of a kind and value
RECURSIVE CountEvents(_, _, _)
CountEvents(evs, kind, value) ==
    IF evs = << >> THEN 0
    ELSE (IF Head(evs).kind = kind /\ Head(evs).value = value THEN 1 ELSE 0)
         + CountEvents(Tail(evs), kind, value)

\* the stream of the turn is over: its message is in history
TurnStreamed == args.stream /\ pc \in { "dispatch", "loop", "done" }

\* C11: in a run_and_stream execution the events of each model turn hold exactly
\* one start delimiter, before the turn's first fragment, and exactly one end
\* delimiter, after its last fragment: no event comes out of place, and once a
\* turn's message is in history the delimiters are closed and there are as many of
\* each as assistant messages produced.
C11_OneStartOneEndPerTurn ==
    args.stream =>
        /\ DelimState(events) # "bad"
        /\ TurnStreamed =>
             /\ DelimState(events) = "closed"
             /\ CountEvents(events, "delim", "start") = CountAssistant(Produced)
             /\ CountEvents(events, "delim", "end") = CountAssistant(Produced)

----------------------------------------------------------------------------
(* C12 *)

\* the in-order concatenation of the string contents of fragments
RECURSIVE FragmentContents(_)
FragmentContents(frags) ==
    IF frags = << >> THEN ""
    ELSE (IF Head(frags).content = None THEN "" ELSE Head(frags).content)
         \o FragmentContents(Tail(frags))

\* every tool-call delta of the fragments, in order
RECURSIVE AllDeltas(_)
AllDeltas(frags) ==
    IF frags = << >> THEN << >>
    ELSE Head(frags).tool_calls \o AllDeltas(Tail(frags))

\* the pieces addressed to index k
PiecesAt(frags, k) == SelectSeq(AllDeltas(frags), LAMBDA d : d.index = k)

\* the indices the fragments address
Indices(frags) == { AllDeltas(frags)[i].index : i \in DOMAIN AllDeltas(frags) }

\* the in-order concatenation of the ids, names and arguments of pieces
RECURSIVE ConcatPieces(_)
ConcatPieces(pieces) ==
    IF pieces = << >> THEN [ id |-> "", name |-> "", arguments |-> "" ]
    ELSE LET h == Head(pieces)
             t == ConcatPieces(Tail(pieces))
             str(v) == IF v = None THEN "" ELSE v
         IN  [ id |-> str(h.id) \o t.id,
               name |-> str(h.function.name) \o t.name,
               arguments |-> str(h.function.arguments) \o t.arguments ]

\* the message of the streamed turn has been finalized
StreamFinalized ==
    /\ args.stream /\ message # NoMessage
    /\ \/ pc \in { "dispatch", "loop", "done" }
       \/ pc = "raised" /\ error = "ValidationError"

\* C12: the finalized message of a streamed turn has as content the in-order
\* concatenation of the string contents of the turn's fragments, and holds one tool
\* call per index addressed, whose name and arguments are the in-order
\* concatenation of the pieces addressed to that index.
C12_FinalizedIsConcatenation ==
    StreamFinalized =>
        LET frags == Fragments(script)
            calls == ListOf(message.tool_calls)
        IN  /\ message.content = FragmentContents(frags)
            /\ Len(calls) = Cardinality(Indices(frags))
            /\ \A k \in Indices(frags) :
                 \E i \in DOMAIN calls :
                    /\ calls[i].id = ConcatPieces(PiecesAt(frags, k)).id
                    /\ calls[i].function.name = ConcatPieces(PiecesAt(frags, k)).name
                    /\ calls[i].function.arguments
                          = ConcatPieces(PiecesAt(frags, k)).arguments

----------------------------------------------------------------------------
(* C13 *)

\* C13: with max_turns = 0 no request is sent to the transport and no tool is
\* invoked; the run returns a Response with no message and the supplied agent, and
\* run_and_stream yields the Response event and nothing else.
C13_ZeroTurns ==
    args.max_turns = 0 =>
        /\ pc \in { "start", "loop", "done" }
        /\ request = NoRequest /\ attempts = 0
        /\ invoked = << >> /\ injected = << >>
        /\ ~Returned => events = << >>
        /\ Returned =>
             /\ response.messages = << >>
             /\ response.agent = args.agent
             /\ events = IF args.stream
                         THEN << [ kind |-> "response", value |-> "" ] >>
                         ELSE << >>

\* run_and_stream with max_turns = 0 has yielded its only event
C13_Witness ==
    /\ args.max_turns = 0 /\ args.stream /\ Returned
    /\ Len(events) = 1
    /\ response.agent = "A" /\ response.messages = << >>

----------------------------------------------------------------------------
(* C14 *)

\* every tool call recorded on message m is a tool call of the completion sc: its
\* id, name and arguments
RecordedFrom(m, sc) ==
    \A i \in DOMAIN ListOf(m.tool_calls) :
        \E j \in DOMAIN ListOf(sc.tool_calls) :
            /\ ListOf(m.tool_calls)[i].id = ListOf(sc.tool_calls)[j].id
            /\ ListOf(m.tool_calls)[i].function = ListOf(sc.tool_calls)[j].function

\* the completion reached the run in one attempt, and when streamed, one tool-call
\* delta per fragment
DeliveredPlainly ==
    /\ attempts = 1
    /\ args.stream => script.style # "packed"

\* C14: with execute_tools false, once the first model response, which holds tool
\* calls, is in history the run has returned: the Response holds that assistant
\* message alone, with tool calls recorded on it (those of the completion when it
\* was delivered plainly), no tool has been dispatched or invoked, there is no
\* tool-role message, and the agent and the context variables are those supplied.
C14_NoDispatchWithoutExecuteTools ==
    ( /\ ~args.execute_tools
      /\ Len(Produced) >= 1
      /\ Truthy(Produced[1].tool_calls) )
    => /\ Returned
       /\ Len(Produced) = 1
       /\ response.messages = Produced
       /\ IsAssistant(Produced[1])
       /\ DeliveredPlainly =>
             /\ RecordedFrom(Produced[1], script)
             /\ Len(ListOf(Produced[1].tool_calls)) = Len(ListOf(script.tool_calls))
       /\ invoked = << >> /\ tool_calls = << >> /\ partial_response = EmptyPartial
       /\ response.agent = args.agent
       /\ response.context_variables = args.context_variables

\* a streamed turn of two tool calls, execute_tools false: the run has returned
C14_Witness ==
    /\ ~args.execute_tools /\ args.stream /\ args.max_turns >= 2
    /\ Returned
    /\ Len(response.messages) = 1
    /\ Len(ListOf(response.messages[1].tool_calls)) = 2
    /\ invoked = << >>

----------------------------------------------------------------------------
(* C15 *)

\* C15: at every point of a run, and so after it, however it ends, the caller's
\* message list and context-variable map are what the caller passed in.
C15_CallerInputUnchanged ==
    /\ args.messages = InputMessages
    /\ args.context_variables = InputContext

\* a run has returned after appending to its history and merging into its context
\* variables
C15_Witness ==
    /\ Returned
    /\ Len(history) >= Len(InputMessages) + 2
    /\ context_variables # InputContext
    /\ "x" \in DOMAIN context_variables

----------------------------------------------------------------------------
(* C16 *)

\* C16: the Response of a run holds the messages appended to history during the
\* run, in append order and none of the input messages (history is the input
\* followed by them), the agent active at termination and the run's context
\* variables at termination.
C16_ResponseIsWhatTheRunProduced ==
    Returned =>
        /\ history = InputMessages \o response.messages
        /\ Len(response.messages) = Len(history) - Len(InputMessages)
        /\ response.agent = active_agent
        /\ response.context_variables = context_variables

\* a run of two turns that handed off to B and merged context variables has
\* returned
C16_Witness ==
    /\ Returned
    /\ Len(response.messages) = 3
    /\ response.agent = "B" /\ args.agent = "A"
    /\ response.context_variables = ("k" :> "0" @@ "x" :> "1")
    /\ IsAssistant(response.messages[1]) /\ IsTool(response.messages[2])
    /\ IsTool(response.messages[3])

----------------------------------------------------------------------------
(* C17 *)

\* C17: a run_and_stream that has completed has yielded exactly one Response
\* event, as its last element; one that has not completed has yielded none.
C17_ResponseEventIsLast ==
    args.stream =>
        /\ Returned =>
             /\ CountEvents(events, "response", "") = 1
             /\ Last(events).kind = "response"
        /\ ~Returned => CountEvents(events, "response", "") = 0

\* a streamed run of two turns has completed: delimiters, fragments and a partial
\* response came before the Response event
C17_Witness ==
    /\ args.stream /\ Returned
    /\ CountEvents(events, "partial_response", "") = 1
    /\ CountEvents(events, "delim", "end") = 2
    /\ Last(events).kind = "response"

----------------------------------------------------------------------------
(* C18 *)

\* what C18 compares of an assistant message
Compared(m) ==
    [ role |-> m.role, content |-> m.content, sender |-> m.sender,
      tool_calls |-> m.tool_calls ]

\* the assistant message of the streamed turn has just been appended
JustAppended ==
    /\ args.stream
    /\ pc \in { "dispatch", "done" }
    /\ Len(history) > InitLen /\ Last(history) = message
    /\ pc = "dispatch" => idx = 1

\* the completion of the turn, as the transport hands it to a blocking run
Completion == [ content |-> script.content, tool_calls |-> script.tool_calls ]

\* C18: Swarm.run_and_stream appends for a turn the assistant message that
\* Swarm.run appends for the same completion, agent and history (same role,
\* content, sender and tool calls), so that both modes end with the same Response.
C18_StreamedTurnIsBlockingTurn ==
    (self.class = "Swarm" /\ JustAppended)
    => /\ Compared(message) = Compared(MessageJson(Completion, active_agent))
       /\ Returned =>
            Compared(Last(response.messages))
               = Compared(MessageJson(Completion, active_agent))

----------------------------------------------------------------------------
(* C19 *)

\* the dispatcher is at a call of a tool of the active agent
AtKnownCall == pc = "dispatch" /\ idx <= Len(tool_calls) /\ Known(tool_calls[idx])

\* what the tool of the call at hand returns
RawResult ==
    ToolReturn(tool_calls[idx].function.name,
               ToolKwargs(tool_calls[idx].function.name,
                          tool_calls[idx].function.arguments, context_variables))

\* the hand-off marker naming an agent: json.dumps({"assistant": name})
HandOffMarker(name) ==
    CASE name = "A" -> "{\"assistant\": \"A\"}"
      [] name = "B" -> "{\"assistant\": \"B\"}"

\* the string form of a plain return value: the int 7 reads "7", a string reads as
\* itself
StringForm(raw) == IF raw.kind = "int" /\ raw.value = 7 THEN "7" ELSE raw.value

\* the Result C19 expects of a return value
Normalized(raw) ==
    CASE raw.kind = "Result" ->
            [ value |-> raw.value, agent |-> raw.agent,
              context_variables |-> raw.context_variables ]
      [] raw.kind = "Agent" ->
            [ value |-> HandOffMarker(raw.agent), agent |-> raw.agent,
              context_variables |-> EmptyDict ]
      [] OTHER ->
            [ value |-> StringForm(raw), agent |-> None,
              context_variables |-> EmptyDict ]

\* C19: the step that invokes a tool which returns adds to the delta what the
\* normalized return value says: a Result gives its own value, agent and context
\* updates; an Agent gives the hand-off marker naming it, itself as the agent and
\* no context update; any other value gives its string form, no agent and no
\* context update.
C19_ReturnValueIsNormalized ==
    [][ (AtKnownCall /\ idx' = idx + 1) =>
          LET result == Normalized(RawResult)
          IN  /\ partial_response'.messages =
                    Append(partial_response.messages,
                           [ role |-> "tool", tool_call_id |-> tool_calls[idx].id,
                             tool_name |-> tool_calls[idx].function.name,
                             content |-> result.value ])
              /\ partial_response'.context_variables =
                    DictUpdate(partial_response.context_variables,
                               result.context_variables)
              /\ partial_response'.agent =
                    IF result.agent # None THEN result.agent
                    ELSE partial_response.agent ]_vars

\* the batch [to_B, seven] of agent A has been dispatched: the marker naming B,
\* then the string "7", and B as the delta's agent
C19_Witness ==
    /\ pc = "dispatch" /\ idx = 3
    /\ invoked = << "to_B", "seven" >>
    /\ partial_response.messages[1].content = "{\"assistant\": \"B\"}"
    /\ partial_response.messages[2].content = "7"
    /\ partial_response.agent = "B"
    /\ partial_response.context_variables = EmptyDict

\* the batch [set_x, to_A] of agent A has been dispatched: two Results, taken as
\* they are
C19_WitnessResult ==
    /\ pc = "dispatch" /\ idx = 3
    /\ invoked = << "set_x", "to_A" >>
    /\ partial_response.messages[1].content = "done"
    /\ partial_response.messages[2].content = "back"
    /\ partial_response.agent = "A"
    /\ partial_response.context_variables = ("x" :> "2" @@ "y" :> "2")

\* agent B's echo has returned a plain string, which is the message's content
C19_WitnessString ==
    /\ pc = "dispatch" /\ idx = 2
    /\ active_agent = "B"
    /\ invoked = << "echo" >>
    /\ partial_response.messages[1].content = "x=" \o DefaultGet(context_variables, "x")
    /\ partial_response.agent = None

----------------------------------------------------------------------------
(* C20 *)

\* the argument string of the call at hand does not parse
BadArguments == tool_calls[idx].function.arguments # "{}"

\* the tool of the call at hand raises, or returns what str() cannot take
ToolFails == tool_calls[idx].function.name \in { "boom", "opaque" }

\* the call at hand fails fatally
FatalCall == AtKnownCall /\ (BadArguments \/ ToolFails)

\* the run was ended by an error of the dispatcher
DispatchRaised == Raised /\ error \in { "JSONDecodeError", "RuntimeError", "TypeError" }

\* C20: a call that fails fatally ends the run with its error and adds nothing to
\* the delta, the history or the events; in the run it ended no later call of the
\* batch was invoked (the tools invoked are those of the earlier calls, and the
\* failing one if its arguments parsed), there is no Response and no response
\* event; and the run takes no further step.
C20_FatalCallEndsTheRun ==
    /\ [][ FatalCall =>
             /\ pc' = "raised"
             /\ error' = (IF BadArguments THEN "JSONDecodeError"
                          ELSE IF tool_calls[idx].function.name = "boom"
                               THEN "RuntimeError" ELSE "TypeError")
             /\ invoked' = (IF BadArguments THEN invoked
                            ELSE Append(invoked, tool_calls[idx].function.name))
             /\ UNCHANGED << partial_response, history, events, response, idx,
                             active_agent, context_variables >> ]_vars
    /\ [](DispatchRaised =>
             /\ idx <= Len(tool_calls)
             /\ Len(invoked) <= idx
             /\ SubSeq(invoked, 1, Len(KnownNames(Processed))) = KnownNames(Processed)
             /\ Len(invoked) <= Len(KnownNames(Processed)) + 1
             /\ response = NoResponse
             /\ \A i \in DOMAIN events : events[i].kind # "response")
    /\ [][ ~Raised ]_vars

\* the batch [boom, set_x]: boom raised and set_x was never invoked
C20_Witness ==
    /\ Raised /\ error = "RuntimeError"
    /\ Len(tool_calls) = 2 /\ idx = 1
    /\ tool_calls[2].function.name = "set_x"
    /\ invoked = << "boom" >>
    /\ response = NoResponse

----------------------------------------------------------------------------
(* C21 *)

\* the buffer after the fragments frags have been merged into it
RECURSIVE Merged(_, _)
Merged(buffer, frags) ==
    IF frags = << >> THEN buffer
    ELSE Merged(merge_chunk(buffer, Head(frags)), Tail(frags))

\* the assistant message a call running alone appends for the completion sc of its
\* first turn
AloneMessage(sc) ==
    IF args.stream
    THEN LET buffer == Merged(NewBuffer, Fragments(sc))
         IN  [ buffer EXCEPT !.tool_calls = FinalToolCalls(buffer),
                             !.sender = IF self.class = "Swarm" THEN "A" ELSE @ ]
    ELSE MessageJson(sc, "A")

\* the delta of a batch dispatched by a call running alone on the caller's input
RECURSIVE AloneDispatch(_, _)
AloneDispatch(calls, partial) ==
    IF calls = << >> THEN partial
    ELSE LET tc == Head(calls)
             name == tc.function.name
         IN  AloneDispatch(
                Tail(calls),
                IF name \notin Range(AgentFunctions("A"))
                THEN [ partial EXCEPT !.messages =
                          Append(@, [ role |-> "tool", tool_call_id |-> tc.id,
                                      tool_name |-> name,
                                      content |-> NotFoundText(name) ]) ]
                ELSE LET result ==
                            handle_function_result(
                               ToolReturn(name, ToolKwargs(name, tc.function.arguments,
                                                           InputContext)))
                     IN  [ messages |->
                              Append(partial.messages,
                                     [ role |-> "tool", tool_call_id |-> tc.id,
                                       tool_name |-> name, content |-> result.value ]),
                           context_variables |->
                              DictUpdate(partial.context_variables,
                                         result.context_variables),
                           agent |-> IF result.agent # None THEN result.agent
                                     ELSE partial.agent ])

\* the Response of a call of one turn (max_turns = 1) that runs alone on the
\* caller's input and is answered with the completion sc
AloneResponse(sc) ==
    LET msg == AloneMessage(sc)
        delta == AloneDispatch(ListOf(msg.tool_calls), EmptyPartial)
    IN  IF ~Truthy(msg.tool_calls) \/ ~args.execute_tools
        THEN [ messages |-> << msg >>, agent |-> "A",
               context_variables |-> InputContext ]
        ELSE [ messages |-> << msg >> \o delta.messages,
               agent |-> IF delta.agent # None THEN delta.agent ELSE "A",
               context_variables |->
                   DictUpdate(InputContext, delta.context_variables) ]

\* there are two calls on the orchestrator
TwoRuns == other # NoRun

\* C21: of two calls interleaved on one orchestrator and started from the same
\* message list and context-variable map, each works on the caller's input and on
\* what it produced itself, whatever the other one did meanwhile, and each
\* returns the Response it returns when it runs alone with the same completions.
C21_InterleavedRunsAreIndependent ==
    TwoRuns =>
        /\ pc \notin { "start", "raised" } =>
             /\ SubSeq(history, 1, Len(InputMessages)) = InputMessages
             /\ Len(history) <= Len(InputMessages) + 1 + Len(ListOf(script.tool_calls))
        /\ other.pc \notin { "start", "raised" } =>
             /\ SubSeq(other.history, 1, Len(InputMessages)) = InputMessages
             /\ Len(other.history)
                   <= Len(InputMessages) + 1 + Len(ListOf(other.script.tool_calls))
        /\ pc = "done" => response = AloneResponse(script)
        /\ other.pc = "done" => other.response = AloneResponse(other.script)

\* one call has returned with the update of set_x while the other one is suspended
\* in the middle of its batch, after its to_B
C21_Witness ==
    /\ TwoRuns
    /\ pc = "done"
    /\ Len(response.messages) = 2
    /\ response.context_variables = DictUpdate(InputContext, ("x" :> "1"))
    /\ response.agent = "A"
    /\ other.pc = "dispatch" /\ other.idx = 2
    /\ other.invoked = << "to_B" >>
    /\ other.context_variables = InputContext
    /\ Len(other.history) = Len(InputMessages) + 1

----------------------------------------------------------------------------
(* C22 *)

----------------------------------------------------------------------------
(* C23 *)

\* the position of the parameter called name in the signature func
ParamAt(func, name) == CHOOSE i \in DOMAIN func : func[i].name = name

\* function_to_json has returned
SchemaMade == "function_to_json" \in util.done

\* C23: the properties of function_to_json(func) are the parameters of func, one
\* each and in declaration order, and required holds the parameters declared
\* without a default, each once, in declaration order, and no other.
C23_PropertiesAndRequired ==
    SchemaMade =>
        LET func == util.func
            properties == util.schema.properties
            required == util.schema.required
        IN  /\ Len(properties) = Len(func)
            /\ \A i \in DOMAIN func : properties[i].name = func[i].name
            /\ \A i \in DOMAIN func :
                  (func[i].default = Empty)
                     <=> (\E k \in DOMAIN required : required[k] = func[i].name)
            /\ \A k \in DOMAIN required :
                  \E i \in DOMAIN func : func[i].name = required[k]
            /\ \A k, l \in DOMAIN required :
                  k < l => ParamAt(func, required[k]) < ParamAt(func, required[l])

\* a function of two parameters, the first with a default and the second without
C23_Witness ==
    /\ SchemaMade
    /\ Len(util.func) = 2
    /\ util.func[1].default # Empty
    /\ util.func[2].default = Empty
    /\ util.schema.required = << util.func[2].name >>
    /\ Len(util.schema.properties) = 2

----------------------------------------------------------------------------
(* C24 *)

\* json_to_function_args has returned
ArgsMade == "json_to_function_args" \in util.done

\* the defaults a parameter declares: one, or none
DeclaredDefaults(param) == IF param.default = Empty THEN { } ELSE { param.default }

\* the annotations of plain values and of lists of primitives
PassedAsIs == { NoAnnotation, "int", "list[int]" }

\* the parameters of func that json_args does not name
Absent(func, json_args) == { i \in DOMAIN func : func[i].name \notin DOMAIN json_args }

\* C24: json_to_function_args(func, json_args) has one entry per declared
\* parameter and no other; a parameter that json_args names holds the supplied
\* value (a plain value or a list of primitives as it is); a parameter that
\* json_args does not name holds the default it declares.
C24_OneEntryPerParameter ==
    ArgsMade =>
        LET func == util.func
            json_args == util.json_args
            out == util.args
        IN  /\ DOMAIN out = { func[i].name : i \in DOMAIN func }
            /\ \A i \in DOMAIN func \ Absent(func, json_args) :
                  func[i].annotation \in PassedAsIs
                     => out[func[i].name] = json_args[func[i].name]
            /\ \A i \in Absent(func, json_args) :
                  out[func[i].name] \in DeclaredDefaults(func[i])

\* the same, for the calls in which every parameter that json_args does not name
\* declares a default
C24_WhenAbsentHaveDefaults ==
    (ArgsMade /\ \A i \in Absent(util.func, util.json_args) :
                    util.func[i].default # Empty)
       => C24_OneEntryPerParameter

----------------------------------------------------------------------------
(* C25 *)

\* C25: for every transport failure that was retried, the sleep_time of the
\* RetryState handed to the callback is the duration slept before the next
\* attempt.
C25_ReportedSleepIsSlept ==
    self.retry_callback =>
        \A i \in DOMAIN slept :
            /\ i \in DOMAIN retry_log
            /\ retry_log[i].sleep_time = slept[i]

----------------------------------------------------------------------------
(* C26 *)

\* the stream of the turn is being iterated and at least one fragment of it has
\* been merged into the buffer
MidStream == pc = "stream" /\ pos > 0

\* the step is a failure of the transport
TransportFails == env'.injected = env.injected + 1

\* C26: a failure of the stream after at least one merged fragment ends the run
\* with that error: the turn does not go to a new attempt and no request is
\* issued for it any more.
C26_MidStreamFailureIsNotRetried ==
    [][ (MidStream /\ TransportFails) =>
           /\ pc' = "raised"
           /\ error' = NextError
           /\ attempts' = attempts ]_vars

----------------------------------------------------------------------------
(* C27 *)

\* merge_fields has returned
FieldsMerged == "merge_fields" \in util.done

\* after is before with source merged into it by the rule: a str of source is
\* concatenated onto the field, a dict of source is merged into the field by the
\* same rule, a value of another type overwrites the field (overwrites) or leaves
\* it as it was; a field that source does not name, or names with None, is as it
\* was
RECURSIVE MergedByRule(_, _, _, _)
MergedByRule(before, source, after, overwrites) ==
    /\ DOMAIN after = DOMAIN before
    /\ \A key \in DOMAIN before :
          IF key \notin DOMAIN source THEN after[key] = before[key]
          ELSE CASE source[key].kind = "str" ->
                       /\ after[key].kind = "str"
                       /\ after[key].v = before[key].v \o source[key].v
                 [] source[key].kind = "dict" ->
                       /\ after[key].kind = "dict"
                       /\ MergedByRule(before[key].v, source[key].v, after[key].v,
                                       overwrites)
                 [] source[key].kind = "other" ->
                       after[key] = IF overwrites THEN source[key] ELSE before[key]
                 [] OTHER -> after[key] = before[key]

----------------------------------------------------------------------------
(* C28 *)

\* the stream of the turn is exhausted and its buffer is about to be finalized
AtFinalization == pc = "stream" /\ pos = Len(Fragments(script))

\* the tool call a finalized message holds for an entry of the buffer
FinalCall(entry) ==
    [ id |-> entry.id, type |-> entry.type, function |-> entry.function ]

\* final is the list of the entries ordered by ascending index
AscendingByIndex(entries, final) ==
    /\ Len(final) = Len(entries)
    /\ \A i \in DOMAIN entries :
          LET before == { j \in DOMAIN entries : entries[j].index < entries[i].index }
          IN  final[Cardinality(before) + 1] = FinalCall(entries[i])

\* C28: the step that finalizes a streamed turn sets the message's tool_calls to
\* the buffer's in-progress tool calls in ascending order of their fragment
\* index, and to None when the buffer holds none.
C28_FinalizedInIndexOrder ==
    [][ AtFinalization =>
          LET entries == ListOf(message.tool_calls)
          IN  IF entries = << >> THEN message'.tool_calls = NoneList
              ELSE /\ message'.tool_calls # NoneList
                   /\ AscendingByIndex(entries, ListOf(message'.tool_calls)) ]_vars

\* the same, for the streams whose indices first arrive in ascending order
C28_WhenArrivedInIndexOrder ==
    [][ (AtFinalization /\ script.style # "reversed") =>
          LET entries == ListOf(message.tool_calls)
          IN  IF entries = << >> THEN message'.tool_calls = NoneList
              ELSE /\ message'.tool_calls # NoneList
                   /\ AscendingByIndex(entries, ListOf(message'.tool_calls)) ]_vars

----------------------------------------------------------------------------
(* C29 *)

\* the agent a call of the batch returns: to_B returns B and to_A returns A when
\* the active agent has them; the other tools, and a call of an unknown tool,
\* return none
AgentReturnedBy(tc) ==
    CASE Known(tc) /\ tc.function.name = "to_B" -> "B"
      [] Known(tc) /\ tc.function.name = "to_A" -> "A"
      [] OTHER -> None

\* the agent returned by the last of calls that returns one, None when none does
RECURSIVE LastAgentReturned(_)
LastAgentReturned(calls) ==
    IF calls = << >> THEN None
    ELSE IF AgentReturnedBy(Last(calls)) # None THEN AgentReturnedBy(Last(calls))
    ELSE LastAgentReturned(SubSeq(calls, 1, Len(calls) - 1))

\* C29: while a batch is dispatched, the agent of the partial response is the one
\* returned by the last processed call that returned an agent, whatever calls
\* without an agent came after it, and none when no processed call returned one;
\* the step that ends the batch makes that agent the active agent, and leaves the
\* active agent as it was when the batch returned no agent.
C29_LastReturnedAgentIsNext ==
    /\ [](pc = "dispatch" => partial_response.agent = LastAgentReturned(Processed))
    /\ [][ (pc = "dispatch" /\ pc' = "loop") =>
             active_agent' = IF LastAgentReturned(tool_calls) # None
                             THEN LastAgentReturned(tool_calls)
                             ELSE active_agent ]_vars

\* the batch [to_A, to_B] of agent A has been dispatched and B is the active agent
C29_Witness ==
    /\ pc = "loop"
    /\ Len(tool_calls) = 2
    /\ tool_calls[1].function.name = "to_A"
    /\ tool_calls[2].function.name = "to_B"
    /\ invoked = << "to_A", "to_B" >>
    /\ partial_response.agent = "B"
    /\ active_agent = "B"

\* the batch [to_B, set_x]: the hand-off to B stands after set_x, which returns no
\* agent
C29_WitnessKept ==
    /\ pc = "loop"
    /\ invoked = << "to_B", "set_x" >>
    /\ active_agent = "B"

\* the batch [set_x, set_x]: no agent returned, A stays
C29_WitnessNone ==
    /\ pc = "loop"
    /\ invoked = << "set_x", "set_x" >>
    /\ partial_response.agent = None
    /\ active_agent = "A"

----------------------------------------------------------------------------
(* C30 *)

\* C30: the run's context-variable map starts with the keys the caller supplied,
\* every step of the run keeps the keys the map has, and the Response holds a map
\* with the caller's keys.
C30_KeysAreNeverDeleted ==
    /\ [][ IF pc = "start"
           THEN DOMAIN context_variables' = DOMAIN InputContext
           ELSE DOMAIN context_variables \subseteq DOMAIN context_variables' ]_vars
    /\ [](Returned => DOMAIN InputContext \subseteq DOMAIN response.context_variables)

\* set_x in one turn and to_A in a later one: x added, then overwritten, y added,
\* and the caller's k still there
C30_Witness ==
    /\ Returned
    /\ CountAssistant(Produced) >= 2
    /\ DOMAIN response.context_variables = { "k", "x", "y" }
    /\ response.context_variables["k"] = InputContext["k"]
    /\ response.context_variables["x"] = "2"
    /\ \E i \in DOMAIN Produced :
          IsTool(Produced[i]) /\ Produced[i].tool_name = "set_x"
                              /\ Produced[i].content = "done"

----------------------------------------------------------------------------
(* C31 *)

\* the step sends a request to the transport: an attempt of a streamed turn, or
\* the first statement of an iteration of the blocking loop
RequestSent ==
    \/ pc = "attempt" /\ attempts' = attempts + 1
    \/ pc = "loop" /\ ~args.stream /\ LoopCondition

\* the keys the model is not sent
Unsupported == { "sender", "tool_name" }

\* C31: the request a step sends holds, first, a system message with the active
\* agent's instructions, then every message of history in order without its
\* sender and tool_name fields and with every other field as it is; the step
\* leaves the messages history held in place, and history never holds a system
\* message, while every assistant message the run appended keeps its sender and
\* every tool message its tool_name.
C31_RequestIsSystemThenSanitizedHistory ==
    /\ [][ RequestSent =>
             /\ request'.messages[1] =
                   [ role |-> "system",
                     content |-> AgentInstructions(active_agent, context_variables) ]
             /\ Len(request'.messages) = Len(history) + 1
             /\ \A i \in DOMAIN history :
                   /\ DOMAIN request'.messages[i + 1] = DOMAIN history[i] \ Unsupported
                   /\ \A k \in DOMAIN request'.messages[i + 1] :
                         request'.messages[i + 1][k] = history[i][k]
             /\ Len(history') >= Len(history)
             /\ SubSeq(history', 1, Len(history)) = history ]_vars
    /\ [](\A i \in DOMAIN history :
             /\ history[i].role # "system"
             /\ (i > InitLen /\ IsAssistant(history[i])) => "sender" \in DOMAIN history[i]
             /\ (i > InitLen /\ IsTool(history[i])) => "tool_name" \in DOMAIN history[i])

\* the request of a second turn, sent as agent B: B's instructions, then the
\* history of the first turn, the assistant message without its sender and the
\* tool message without its tool_name
C31_Witness ==
    /\ active_agent = "B"
    /\ Len(history) = InitLen + 2
    /\ history[InitLen + 1].sender = "A"
    /\ history[InitLen + 2].tool_name = "to_B"
    /\ Len(request.messages) = Len(history) + 1
    /\ request.messages[1] = [ role |-> "system", content |-> "You are B. x=" ]
    /\ "sender" \notin DOMAIN request.messages[InitLen + 2]
    /\ "tool_name" \notin DOMAIN request.messages[InitLen + 3]
    /\ request.messages[InitLen + 3].content = "{\"assistant\": \"B\"}"

----------------------------------------------------------------------------
(* C32 *)

\* a is a prefix of b
IsPrefix(a, b) == Len(a) <= Len(b) /\ SubSeq(b, 1, Len(a)) = a

\* the step appends an assistant message to the history of a streamed run
AppendsStreamed ==
    /\ pc # "start"
    /\ args.stream
    /\ Len(history') > Len(history)
    /\ IsAssistant(history'[Len(history) + 1])

\* the tool_calls of a finalized message: None or a list of calls, no longer the
\* buffer's map from index to call
FinalizedForm(tc) ==
    /\ tc # Some(<< >>)
    /\ \A i \in DOMAIN ListOf(tc) : DOMAIN ListOf(tc)[i] = { "id", "type", "function" }

\* C32: after the run has copied its input, every step leaves the history it
\* found as a prefix of the history it leaves, so no message is removed, moved
\* or changed (the sender of an earlier message included); and in a streamed run
\* an assistant message enters history only in the step that finds the stream
\* exhausted, yields the end delimiter and finalizes the buffer, one message at
\* a time and in finalized form.
C32_HistoryIsAppendOnly ==
    /\ [][ pc # "start" => IsPrefix(history, history') ]_vars
    /\ [][ AppendsStreamed =>
             /\ pc = "stream"
             /\ pos = Len(Fragments(script))
             /\ events'[Len(events) + 1] = [ kind |-> "delim", value |-> "end" ]
             /\ Len(history') = Len(history) + 1
             /\ FinalizedForm(Last(history').tool_calls) ]_vars

\* a streamed run in its third turn after a hand-off: the message of agent A
\* still carries A's name, two messages further on the one of agent B carries B's
C32_Witness ==
    /\ args.stream
    /\ Len(history) >= InitLen + 3
    /\ history[InitLen + 1].role = "assistant"
    /\ history[InitLen + 1].sender = "A"
    /\ history[InitLen + 2].role = "tool"
    /\ history[InitLen + 3].role = "assistant"
    /\ history[InitLen + 3].sender = "B"
    /\ self.class = "Swarm"

----------------------------------------------------------------------------
(* C33 *)

\* C33: the message finalized for a streamed turn that needed more than one
\* attempt holds what the fragments of the completed attempt carry and nothing
\* else: its content is their concatenation, and it has one tool call per index
\* they address, with the id, name and arguments of the pieces of that attempt.
C33_FinalizedFromCompletedAttemptOnly ==
    (StreamFinalized /\ attempts >= 2) =>
        LET completed == Fragments(script)
            calls == ListOf(message.tool_calls)
        IN  /\ message.content = FragmentContents(completed)
            /\ Len(calls) = Cardinality(Indices(completed))
            /\ \A i \in DOMAIN calls :
                 LET piece == ConcatPieces(PiecesAt(completed, i - 1))
                 IN  /\ calls[i].id = piece.id
                     /\ calls[i].function.name = piece.name
                     /\ calls[i].function.arguments = piece.arguments

\* the same for a turn none of whose failed attempts had delivered a fragment
\* (the fragments handed on are as many as the completed attempt has): this
\* much the retry loop does
C33_WhenNothingWasMerged ==
    (StreamFinalized /\ attempts >= 2
       /\ Cardinality({ i \in DOMAIN events : events[i].kind = "delta" })
             = Len(Fragments(script)))
    => C33_FinalizedFromCompletedAttemptOnly

----------------------------------------------------------------------------
(* C34 *)

\* the fragments of the turn's stream merged so far
MergedSoFar == SubSeq(Fragments(script), 1, pos)

\* the buffer holds, under the index of delta d, the pieces that the merged
\* fragments address to that index
MergedAtItsIndex(d) ==
    \E i \in DOMAIN ListOf(message.tool_calls) :
        LET entry == ListOf(message.tool_calls)[i]
            piece == ConcatPieces(PiecesAt(MergedSoFar, d.index))
        IN  /\ entry.index = d.index
            /\ entry.id = piece.id
            /\ entry.function.name = piece.name
            /\ entry.function.arguments = piece.arguments

\* C34: once a fragment that carries several tool-call deltas has been merged,
\* the buffer holds every one of its deltas under that delta's own index.
C34_EveryDeltaOfAFragmentIsMerged ==
    (pc = "stream" /\ pos > 0) =>
        \A j \in 1..pos :
            Len(MergedSoFar[j].tool_calls) >= 2 =>
                \A n \in DOMAIN MergedSoFar[j].tool_calls :
                    MergedAtItsIndex(MergedSoFar[j].tool_calls[n])

\* the first delta of such a fragment is merged at its index
C34_FirstDeltaIsMerged ==
    (pc = "stream" /\ pos > 0) =>
        \A j \in 1..pos :
            Len(MergedSoFar[j].tool_calls) >= 2 =>
                MergedAtItsIndex(MergedSoFar[j].tool_calls[1])

----------------------------------------------------------------------------
(* C35 *)

\* where a consumer stands who reads the delimiters only: "out" before a start
\* delimiter and after an end delimiter, "in" between the two, "bad" once a start
\* delimiter came inside a turn or an end delimiter outside one
AlternateStep(st, e) ==
    CASE st = "bad" -> "bad"
      [] e.kind = "delim" /\ e.value = "start" -> IF st = "out" THEN "in" ELSE "bad"
      [] e.kind = "delim" /\ e.value = "end" -> IF st = "in" THEN "out" ELSE "bad"
      [] OTHER -> st

RECURSIVE Alternation(_)
Alternation(evs) ==
    IF evs = << >> THEN "out"
    ELSE AlternateStep(Alternation(SubSeq(evs, 1, Len(evs) - 1)), Last(evs))

\* C35: the delimiters of the events run_and_stream has yielded alternate,
\* starting with a start delimiter: an end delimiter comes only after a start
\* delimiter that no end delimiter has answered yet, whatever the number of
\* fragments of a turn's stream, zero included.
C35_DelimitersAlternate ==
    args.stream => Alternation(events) # "bad"

\* the stream of the turn has ended and it had delivered no fragment
EmptyStreamEnded ==
    /\ args.stream
    /\ pc = "done"
    /\ script # NoScript
    /\ Fragments(script) = << >>

\* the same over the turns whose stream delivers a fragment: the events before
\* the first empty stream ends alternate
C35_UntilAnEmptyStream ==
    (args.stream /\ ~EmptyStreamEnded) => Alternation(events) # "bad"

----------------------------------------------------------------------------
(* C36 *)

\* the fragment events the consumer has been handed
FragmentEvents == SelectSeq(events, LAMBDA e : e.kind = "delta")

\* C36: every fragment the consumer of run_and_stream holds is as it was when it
\* was yielded: it has the same fields with the same values, and each of its
\* tool-call deltas still has its index and its type.
C36_YieldedFragmentIsNotModified ==
    \A i \in DOMAIN FragmentEvents :
        LET e == FragmentEvents[i]
        IN  /\ e.object = e.yielded
            /\ \A n \in DOMAIN e.object.tool_calls :
                  { "index", "type" } \subseteq DOMAIN e.object.tool_calls[n]

\* the fields of the fragment itself are as they were yielded, role and sender
\* included, and so are the tool-call deltas after the first
C36_TopLevelIsNotModified ==
    \A i \in DOMAIN FragmentEvents :
        LET e == FragmentEvents[i]
        IN  /\ DOMAIN e.object = DOMAIN e.yielded
            /\ \A k \in DOMAIN e.object \ { "tool_calls" } : e.object[k] = e.yielded[k]
            /\ Len(e.object.tool_calls) = Len(e.yielded.tool_calls)
            /\ \A n \in DOMAIN e.object.tool_calls :
                  n > 1 => e.object.tool_calls[n] = e.yielded.tool_calls[n]

----------------------------------------------------------------------------
(* C37 *)

\* the call on AsyncSwarm that follows the same call on Swarm has returned
BothReturned == other.pc = "twin" /\ Returned

\* messages without their sender fields
WithoutSender(msgs) ==
    [ i \in DOMAIN msgs |->
        [ k \in DOMAIN msgs[i] \ { "sender" } |-> msgs[i][k] ] ]

\* C37: for the same agent, input, max_turns, execute_tools, mode, model outputs
\* and tool results, the Response of AsyncSwarm.run or run_and_stream is the
\* Response of Swarm.run or run_and_stream: the same messages with the same
\* senders, the same agent, the same context variables.
C37_AsyncResponseIsSyncResponse ==
    BothReturned => response = other.response

\* AsyncSwarm.run ends with the Response of Swarm.run
C37_BlockingResponseIsSyncResponse ==
    (BothReturned /\ ~args.stream) => response = other.response

\* the Response of AsyncSwarm.run_and_stream is that of Swarm.run_and_stream but
\* for the senders of its messages
C37_SameButForSenders ==
    BothReturned =>
        /\ WithoutSender(response.messages) = WithoutSender(other.response.messages)
        /\ response.agent = other.response.agent
        /\ response.context_variables = other.response.context_variables
        /\ context_variables = other.context_variables
        /\ invoked = other.invoked

====
